---- MODULE Spec2Model ----
(***************************************************************************)
(* Model of the station bridge: the command manager and the scheduler     *)
(* loop that drives it (station.rs, main.rs), the link loop with its      *)
(* byte budget (station.rs), the code router (station.rs) and the sensor  *)
(* catalogue (sensor.rs).  Time is a global clock in milliseconds.        *)
(***************************************************************************)
EXTENDS Integers, Sequences, FiniteSets, TLC

VARIABLES
    clock,            \* Instant::now(), in ms since process start
    \* ---- CommandManager (station.rs 171-234)
    waiting,          \* Mutex<Vec<Waiting>>: the waiter vector
    waiting_lock,     \* holder of the `waiting` mutex: "free", "main"
    tx_lock,          \* holder of the `tx` mutex: "free", "main", "sched"
    on_send,          \* the outbound channel station_tx -> on_send (CodeSend)
    notify,           \* notify channels: channel id -> queue of keys sent
    \* ---- the main thread (main.rs 217-289, 33-46) and its call of
    \*      command_guarentee
    caller_pc, caller_code, caller_chan, caller_retry, caller_ret,
    gu_ids,           \* get_updates: the sensors the for loop has yet to visit
    gu_count,         \* get_updates: count
    pub_rapid,        \* the publisher loop: rapid
    published,        \* the updates published so far: their topics
    \* ---- scheduler thread (main.rs 123-215)
    sched_pc, cmd_due, timeout, sched_now, sched_cmd,
    rapid, rapid_due, rapid_update_due, update_due,
    rx,               \* the event channel tx -> rx (ChannelType)
    update,           \* the update channel update -> on_update (bool)
    \* ---- CodeHandler (station.rs 134-161)
    callbacks,        \* Vec<(Rule, handler)>
    invoked,          \* handlers invoked by the last CodeHandler::code, with results
    code_ret,         \* the return value of the last CodeHandler::code
    \* ---- Sensors (sensor.rs 31-34)
    sensors_lock,     \* holder of the catalogue mutex: "free", "main"
    sensors,          \* BTreeMap<u8, Sensor>
    map,              \* BTreeMap<Arc<str>, u8>
    put_ret,          \* the return value of the last Sensors::put
    \* ---- StationReader (station.rs 57-64) and the serial port
    link_pc, last_send, bytes_sent, to_send, link_deadline,
    port,             \* every byte written to the uart so far, in order
    writes,           \* the writes so far: [at |-> instant, len |-> bytes]
    dequeued,         \* the records the link loop has taken from on_send
    \* ---- history
    hist,             \* per registered waiter: key, first due, resends, ack time
    produced          \* the number of events the station and the broker sent

cmdVars    == <<waiting, waiting_lock, tx_lock, on_send, notify>>
callVars   == <<caller_code, caller_chan, caller_retry, caller_ret>>
mainVars   == <<gu_ids, gu_count, pub_rapid, published>>
callerVars == <<caller_pc, callVars, mainVars>>
timerVars  == <<rapid, rapid_due, rapid_update_due, update_due>>
schedVars  == <<sched_pc, cmd_due, timeout, sched_now, sched_cmd>>
routerVars == <<callbacks, invoked, code_ret>>
sensorVars == <<sensors_lock, sensors, map, put_ret>>
linkVars   == <<link_pc, last_send, bytes_sent, to_send, link_deadline, port, writes, dequeued>>
histVars   == <<hist, produced>>

vars == <<clock, cmdVars, callerVars, timerVars, schedVars, rx, update,
          routerVars, sensorVars, linkVars, histVars>>

(***************************************************************************)
(* Bounds of the model.                                                    *)
(***************************************************************************)
Tick       == 1000    \* the clock advances in steps of Tick ms
MaxClock   == 2000    \* the clock stops here
MaxReg     == 3       \* command_guarentee calls explored
MaxOut     == 2       \* records waiting in on_send
MaxRx      == 2       \* events waiting in rx
MaxEvents  == 1       \* events the station and the broker produce
MaxRouted  == 2       \* records routed with the command manager on its own
MaxUpdates == 2       \* update requests waiting in the update channel
LinkTick   == 50      \* the clock of the link loop advances in steps of LinkTick ms
MaxLinkClock == 400   \* the clock of the link loop stops here
MaxLinkRecs == 3      \* records given to the link loop
MaxCallbacks == 3     \* handlers registered with the router on its own
TimerTick  == 1250    \* the clock of the scheduler on its own advances in steps of TimerTick ms
MaxTimerClock == 65000 \* the clock of the scheduler on its own stops here
MaxRequests == 2      \* events sent to the scheduler on its own
MaxInClock == 1500    \* the clock of the link loop with inbound traffic stops here

(***************************************************************************)
(* Program constants.                                                      *)
(***************************************************************************)
LetterM == 77         \* b'M'
LetterS == 83         \* b'S'
LetterO == 79         \* b'O'
LetterV == 86         \* b'V'
LetterN == 78         \* b'N'
LetterU == 85         \* b'U'
LetterR == 82         \* b'R'
RetrySecs        == 1000    \* Duration::from_secs(1)
UpdatePeriod     == 60000   \* Duration::from_secs(60)
RapidPeriod      == 60000   \* Duration::from_secs(60)
RapidUpdateEvery == 2500    \* Duration::from_millis(2500)
RecvTimeoutMs    == 150     \* on_send.recv_timeout(Duration::from_millis(150))
WindowMs         == 150     \* (now - last_send) > Duration::from_millis(150)
BudgetBytes      == 60      \* let allotment = 60 - self.bytes_sent

(***************************************************************************)
(* The code value model: CodeSend {letter, number, params},                *)
(* ParamSend {letter, value}; a value is an integer, a float (kept in      *)
(* tenths) or bytes.                                                       *)
(***************************************************************************)
IntVal(n)    == [t |-> "int", v |-> n, b |-> <<>>]
FloatVal(n)  == [t |-> "float", v |-> n, b |-> <<>>]
BytesVal(bs) == [t |-> "bytes", v |-> 0, b |-> bs]
Param(l, val) == [letter |-> l, value |-> val]
Code(l, n, ps) == [letter |-> l, number |-> n, params |-> ps]

\* ParamValue::cast_u8 as used at station.rs 189, where its failure makes
\* the handler return false: a numeric value converts, bytes do not (put falls
\* back to parsing the text when cast_f32 fails, sensor.rs 61-68).
CastU8(val) ==
    IF val.t = "bytes" THEN [ok |-> FALSE, v |-> 0]
    ELSE [ok |-> TRUE, v |-> val.v % 256]

request_all_sensors_code == Code(LetterM, 1, <<>>)
request_autos_code == Code(LetterM, 102, <<>>)
\* the request built for sensor 3 whatever the sensor asked for
request_sensor_code_Fixed(sensor, only_value) ==
    Code(LetterS, 3,
         IF only_value THEN <<Param(LetterR, BytesVal(<<LetterV>>))>> ELSE <<>>)

\* request_sensor_code (station.rs 244-256)
request_sensor_code(sensor, only_value) ==
    Code(LetterS, sensor,
         IF only_value THEN <<Param(LetterR, BytesVal(<<LetterV>>))>> ELSE <<>>)
\* the clock parameters are the wall-clock date and time, left abstract
set_clock_code == Code(LetterM, 10, <<Param(68, IntVal(0)), Param(84, IntVal(0))>>)

(***************************************************************************)
(* Option<T>                                                               *)
(***************************************************************************)
None == [some |-> FALSE, v |-> 0]
Some(x) == [some |-> TRUE, v |-> x]

Min2(a, b) == IF a < b THEN a ELSE b

(***************************************************************************)
(* Rule (station.rs 15-55)                                                 *)
(***************************************************************************)
RuleNew(l, n) == [letter |-> Some(l), number |-> Some(n)]
RuleLetter(l) == [letter |-> Some(l), number |-> None]
RuleNumber(n) == [letter |-> None, number |-> Some(n)]
RuleDefault == [letter |-> None, number |-> None]

\* Rule::matches
RuleMatches(rule, code) ==
    IF rule.letter.some /\ rule.letter.v # code.letter THEN FALSE
    ELSE IF rule.number.some /\ rule.number.v # code.number THEN FALSE
    ELSE TRUE

(***************************************************************************)
(* CommandManager (station.rs 163-234)                                     *)
(***************************************************************************)
Waiting(code, due, retry, tx, wid) ==
    [key |-> <<code.letter, code.number>>, code |-> code, due |-> due,
     retry |-> retry, notify |-> tx, wid |-> wid]

\* Vec::truncate(i - 1) in place of Vec::swap_remove
SwapRemove_Truncate(s, i) == SubSeq(s, 1, i - 1)

\* Vec::swap_remove(i): the last element takes the place of the removed one
SwapRemove(s, i) ==
    IF i = Len(s) THEN SubSeq(s, 1, Len(s) - 1)
    ELSE [k \in 1..(Len(s) - 1) |-> IF k = i THEN s[Len(s)] ELSE s[k]]

\* iter().enumerate().find(|(_, v)| v.key == key): the first match, 0 if none
FindKey(w, key) ==
    IF \E i \in 1..Len(w) : w[i].key = key
    THEN CHOOSE i \in 1..Len(w) :
            /\ w[i].key = key
            /\ \A j \in 1..(i - 1) : w[j].key # key
    ELSE 0

\* the handler going on to accept when the value does not convert
on_command_AcceptUnconverted(w, nt, code) ==
    IF code.params # <<>>
    THEN LET c == Head(code.params)
             number == CastU8(c.value)
             i == IF number.ok THEN FindKey(w, <<c.letter, number.v>>) ELSE 0
         IN  IF i > 0
             THEN [waiting |-> SwapRemove(w, i),
                   notify |-> [nt EXCEPT ![w[i].notify] =
                                  Append(@, <<c.letter, number.v>>)],
                   accepted |-> TRUE]
             ELSE [waiting |-> w, notify |-> nt, accepted |-> TRUE]
    ELSE [waiting |-> w, notify |-> nt, accepted |-> FALSE]

\* the handler notifying the caller and leaving the waiter in the vector
on_command_KeepWaiter(w, nt, code) ==
    IF code.params # <<>>
    THEN LET c == Head(code.params)
             number == CastU8(c.value)
         IN  IF ~number.ok
             THEN [waiting |-> w, notify |-> nt, accepted |-> FALSE]
             ELSE LET i == FindKey(w, <<c.letter, number.v>>)
                  IN  IF i > 0
                      THEN [waiting |-> w,
                            notify |-> [nt EXCEPT ![w[i].notify] =
                                           Append(@, <<c.letter, number.v>>)],
                            accepted |-> TRUE]
                      ELSE [waiting |-> w, notify |-> nt, accepted |-> TRUE]
    ELSE [waiting |-> w, notify |-> nt, accepted |-> FALSE]

\* the handler removing the waiter without notifying the caller
on_command_NoNotify(w, nt, code) ==
    IF code.params # <<>>
    THEN LET c == Head(code.params)
             number == CastU8(c.value)
         IN  IF ~number.ok
             THEN [waiting |-> w, notify |-> nt, accepted |-> FALSE]
             ELSE LET i == FindKey(w, <<c.letter, number.v>>)
                  IN  IF i > 0
                      THEN [waiting |-> SwapRemove(w, i), notify |-> nt,
                            accepted |-> TRUE]
                      ELSE [waiting |-> w, notify |-> nt, accepted |-> TRUE]
    ELSE [waiting |-> w, notify |-> nt, accepted |-> FALSE]

\* the handler notifying the caller twice
on_command_NotifyTwice(w, nt, code) ==
    IF code.params # <<>>
    THEN LET c == Head(code.params)
             number == CastU8(c.value)
         IN  IF ~number.ok
             THEN [waiting |-> w, notify |-> nt, accepted |-> FALSE]
             ELSE LET i == FindKey(w, <<c.letter, number.v>>)
                  IN  IF i > 0
                      THEN [waiting |-> SwapRemove(w, i),
                            notify |-> [nt EXCEPT ![w[i].notify] =
                                           @ \o <<<<c.letter, number.v>>,
                                                  <<c.letter, number.v>>>>],
                            accepted |-> TRUE]
                      ELSE [waiting |-> w, notify |-> nt, accepted |-> TRUE]
    ELSE [waiting |-> w, notify |-> nt, accepted |-> FALSE]

\* the handler installed by on_command (station.rs 186-202), run under the
\* `waiting` mutex
on_command(w, nt, code) ==
    IF code.params # <<>>
    THEN LET c == Head(code.params)
             number == CastU8(c.value)
         IN  IF ~number.ok
             THEN [waiting |-> w, notify |-> nt, accepted |-> FALSE]
             ELSE LET i == FindKey(w, <<c.letter, number.v>>)
                  IN  IF i > 0
                      THEN [waiting |-> SwapRemove(w, i),
                            notify |-> [nt EXCEPT ![w[i].notify] =
                                           Append(@, <<c.letter, number.v>>)],
                            accepted |-> TRUE]
                      ELSE [waiting |-> w, notify |-> nt, accepted |-> TRUE]
    ELSE [waiting |-> w, notify |-> nt, accepted |-> FALSE]

\* the filter of update with the comparison dropped
IsDue_Always(wt, now) == TRUE

\* the filter |w| w.due <= now of update (station.rs 225)
IsDue(wt, now) == wt.due <= now

\* update, the waiter it resends dropped from the vector
UpdateWaiting_Drop(w, now) == SelectSeq(w, LAMBDA wt : ~IsDue(wt, now))

\* update rearming a waiter from its old due in place of now
UpdateWaiting_FromDue(w, now) ==
    [i \in 1..Len(w) |->
        IF IsDue(w[i], now) THEN [w[i] EXCEPT !.due = @ + w[i].retry] ELSE w[i]]

\* update (station.rs 221-229): the waiter vector afterwards
UpdateWaiting(w, now) ==
    [i \in 1..Len(w) |->
        IF IsDue(w[i], now) THEN [w[i] EXCEPT !.due = now + w[i].retry] ELSE w[i]]

\* update (station.rs 221-229): the waiters it resends, in vector order
UpdateResent(w, now) == SelectSeq(w, LAMBDA wt : IsDue(wt, now))

RECURSIVE MinDue(_)
MinDue(w) ==
    IF Len(w) = 1 THEN w[1].due ELSE Min2(w[1].due, MinDue(Tail(w)))

\* earliest_due (station.rs 231-233)
earliest_due(w) == IF w = <<>> THEN None ELSE Some(MinDue(w))

(***************************************************************************)
(* Sensors (sensor.rs 11-113)                                              *)
(***************************************************************************)
\* CodeSend::find(letter): the first parameter with that letter
RECURSIVE Find(_, _)
Find(params, letter) ==
    IF params = <<>> THEN None
    ELSE IF Head(params).letter = letter THEN Some(Head(params).value)
    ELSE Find(Tail(params), letter)

IsDigit(b) == b >= 48 /\ b <= 57

\* the digits of a decimal, as a number
RECURSIVE Digits(_)
Digits(bs) ==
    IF bs = <<>> THEN 0 ELSE 10 * Digits(SubSeq(bs, 1, Len(bs) - 1)) + (bs[Len(bs)] - 48)

\* std::str::from_utf8(v).ok().map(|v| v.parse().ok()).flatten() on the
\* decimals "d..d" and "d..d.d"; the float is kept in tenths
ParseF32(bs) ==
    IF bs # <<>> /\ \A i \in 1..Len(bs) : IsDigit(bs[i])
    THEN Some(10 * Digits(bs))
    ELSE IF Len(bs) >= 3 /\ bs[Len(bs) - 1] = 46 /\ IsDigit(bs[Len(bs)])
            /\ \A i \in 1..(Len(bs) - 2) : IsDigit(bs[i])
    THEN Some(10 * Digits(SubSeq(bs, 1, Len(bs) - 2)) + (bs[Len(bs)] - 48))
    ELSE None

\* the value of parameter V read by cast_f32 alone, bytes not parsed
ValueOf_FloatOnly(code) ==
    LET value == Find(code.params, LetterV)
    IN  IF ~value.some THEN None
        ELSE IF value.v.t = "float" THEN Some(value.v.v)
        ELSE IF value.v.t = "int" THEN Some(10 * value.v.v)
        ELSE None

\* the value of parameter V as put reads it (sensor.rs 61-68): cast_f32, and
\* for bytes the parse of their text
ValueOf(code) ==
    LET value == Find(code.params, LetterV)
    IN  IF ~value.some THEN None
        ELSE IF value.v.t = "float" THEN Some(value.v.v)
        ELSE IF value.v.t = "int" THEN Some(10 * value.v.v)
        ELSE ParseF32(value.v.b)

\* String::from_utf8_lossy on single-byte text: a byte that is not ASCII
\* becomes U+FFFD
Utf8Lossy(bs) == [i \in 1..Len(bs) |-> IF bs[i] >= 128 THEN 65533 ELSE bs[i]]

SensorRec(name, unit, id, value, now) ==
    [name |-> name, unit |-> unit, id |-> id, value |-> value,
     last_update |-> now, auto |-> FALSE]

\* BTreeMap::insert
MapInsert(m, k, v) == [x \in (DOMAIN m) \cup {k} |-> IF x = k THEN v ELSE m[x]]

\* the update branch of put writing the name and unit of the record too
PutExisting_Rename(sensor, code, value, now) ==
    LET name == Find(code.params, LetterN)
        unit == Find(code.params, LetterU)
    IN  [sensor EXCEPT !.last_update = now, !.value = value,
            !.name = IF name.some THEN Utf8Lossy(name.v.b) ELSE @,
            !.unit = IF unit.some THEN Utf8Lossy(unit.v.b) ELSE @]

\* the update branch of put (sensor.rs 70-72)
PutExisting(sensor, code, value, now) ==
    [sensor EXCEPT !.last_update = now, !.value = value]

\* put entering the name in the index before it looks for the unit
put_IndexFirst(ss, m, code, now) ==
    IF code.letter # LetterS THEN [sensors |-> ss, map |-> m, ret |-> FALSE]
    ELSE LET value == ValueOf(code)
         IN  IF ~value.some THEN [sensors |-> ss, map |-> m, ret |-> FALSE]
             ELSE IF code.number \in DOMAIN ss
             THEN [sensors |-> [ss EXCEPT ![code.number] =
                                   PutExisting(@, code, value.v, now)],
                   map |-> m, ret |-> TRUE]
             ELSE LET name == Find(code.params, LetterN)
                      unit == Find(code.params, LetterU)
                  IN  IF ~name.some
                      THEN [sensors |-> ss, map |-> m, ret |-> FALSE]
                      ELSE IF ~unit.some
                      THEN [sensors |-> ss,
                            map |-> MapInsert(m, Utf8Lossy(name.v.b), code.number),
                            ret |-> FALSE]
                      ELSE LET sensor == SensorRec(Utf8Lossy(name.v.b),
                                                   Utf8Lossy(unit.v.b),
                                                   code.number, value.v, now)
                           IN  [sensors |-> MapInsert(ss, sensor.id, sensor),
                                map |-> MapInsert(m, sensor.name, sensor.id),
                                ret |-> TRUE]

\* Sensors::put (sensor.rs 56-95)
put(ss, m, code, now) ==
    IF code.letter # LetterS THEN [sensors |-> ss, map |-> m, ret |-> FALSE]
    ELSE LET value == ValueOf(code)
         IN  IF ~value.some THEN [sensors |-> ss, map |-> m, ret |-> FALSE]
             ELSE IF code.number \in DOMAIN ss
             THEN [sensors |-> [ss EXCEPT ![code.number] =
                                   PutExisting(@, code, value.v, now)],
                   map |-> m, ret |-> TRUE]
             ELSE LET name == Find(code.params, LetterN)
                      unit == Find(code.params, LetterU)
                  IN  IF ~name.some \/ ~unit.some
                      THEN [sensors |-> ss, map |-> m, ret |-> FALSE]
                      ELSE LET sensor == SensorRec(Utf8Lossy(name.v.b),
                                                   Utf8Lossy(unit.v.b),
                                                   code.number, value.v, now)
                           IN  [sensors |-> MapInsert(ss, sensor.id, sensor),
                                map |-> MapInsert(m, sensor.name, sensor.id),
                                ret |-> TRUE]

\* Sensors::get (sensor.rs 97-102)
get(ss, m, name) ==
    IF name \in DOMAIN m
    THEN IF m[name] \in DOMAIN ss THEN Some(ss[m[name]]) ELSE None
    ELSE None

\* the 64-bit bitset of ingest_autos is kept as the set of its bits that are
\* set; BitsOf(x) is the bitset of the integer x
BitsOf(x) == {n \in 0..30 : (x \div (2 ^ n)) % 2 = 1}

\* ingest_autos: the bitset after one parameter (E sets a bit, D clears it,
\* V overwrites the bitset)
AutosStep(bits, p) ==
    IF p.letter = 69 /\ p.value.t = "int" /\ p.value.v \in 0..63
    THEN bits \cup {p.value.v}
    ELSE IF p.letter = 68 /\ p.value.t = "int" /\ p.value.v \in 0..63
    THEN bits \ {p.value.v}
    ELSE IF p.letter = LetterV /\ p.value.t = "int" /\ p.value.v >= 0
    THEN BitsOf(p.value.v)
    ELSE bits

RECURSIVE AutosFold(_, _)
AutosFold(bits, params) ==
    IF params = <<>> THEN bits
    ELSE AutosFold(AutosStep(bits, Head(params)), Tail(params))

\* ingest_autos: every sensor's auto flag is its bit of the folded bitset
ingest_autos(ss, code) ==
    LET bits == AutosFold({}, code.params)
    IN  [id \in DOMAIN ss |-> [ss[id] EXCEPT !.auto = (id \in bits)]]

(***************************************************************************)
(* CodeHandler (station.rs 134-161).  A handler is named; the state the    *)
(* handlers act on is st = [waiting, notify, sensors, map], at time now.   *)
(***************************************************************************)
Callback(rule, name, acc) == [rule |-> rule, name |-> name, acc |-> acc]

\* the boxed closure f(&code) of entry cb: its effect on st and its result
Handle(cb, st, code, now) ==
    CASE cb.name = "on_command" ->
            LET r == on_command(st.waiting, st.notify, code)
            IN  [st |-> [st EXCEPT !.waiting = r.waiting, !.notify = r.notify],
                 ok |-> r.accepted]
      [] cb.name = "sensor_callback" ->
            LET r == put(st.sensors, st.map, code, now)
            IN  [st |-> [st EXCEPT !.sensors = r.sensors, !.map = r.map],
                 ok |-> r.ret]
      [] cb.name = "autos_callback" ->
            [st |-> [st EXCEPT !.sensors = ingest_autos(st.sensors, code)],
             ok |-> TRUE]
      [] OTHER -> [st |-> st, ok |-> code \in cb.acc]

\* CodeHandler::code going on after a handler accepted
RECURSIVE CodeFrom_NoStop(_, _, _, _, _, _)
CodeFrom_NoStop(cbs, i, code, st, now, log) ==
    IF i > Len(cbs) THEN [st |-> st, log |-> log,
                          ret |-> \E k \in 1..Len(log) : log[k].ok]
    ELSE IF ~RuleMatches(cbs[i].rule, code)
    THEN CodeFrom_NoStop(cbs, i + 1, code, st, now, log)
    ELSE LET r == Handle(cbs[i], st, code, now)
         IN  CodeFrom_NoStop(cbs, i + 1, code, r.st, now,
                             Append(log, [h |-> i, ok |-> r.ok]))

\* CodeHandler::code from entry i on (station.rs 153-160): the handlers
\* whose rule matches are called in order until one returns true
RECURSIVE CodeFrom(_, _, _, _, _, _)
CodeFrom(cbs, i, code, st, now, log) ==
    IF i > Len(cbs) THEN [st |-> st, log |-> log, ret |-> FALSE]
    ELSE IF ~RuleMatches(cbs[i].rule, code)
    THEN CodeFrom(cbs, i + 1, code, st, now, log)
    ELSE LET r == Handle(cbs[i], st, code, now)
         IN  IF r.ok
             THEN [st |-> r.st, log |-> Append(log, [h |-> i, ok |-> TRUE]),
                   ret |-> TRUE]
             ELSE CodeFrom(cbs, i + 1, code, r.st, now,
                           Append(log, [h |-> i, ok |-> FALSE]))

\* the handler table without the handler of M102
code_handler_NoAutos ==
    << Callback(RuleNew(LetterO, 1), "on_command", {}),
       Callback(RuleLetter(LetterS), "sensor_callback", {}) >>

\* the handler table main builds (main.rs 117-120)
code_handler ==
    << Callback(RuleNew(LetterO, 1), "on_command", {}),
       Callback(RuleLetter(LetterS), "sensor_callback", {}),
       Callback(RuleNew(LetterM, 102), "autos_callback", {}) >>

(***************************************************************************)
(* The events of the channel tx -> rx (ChannelType, main.rs 48-70).        *)
(***************************************************************************)
NoCode == Code(0, 0, <<>>)
CodeEvent(c) == [type |-> "Code", code |-> c, action |-> ""]
CodeErrEvent == [type |-> "CodeErr", code |-> NoCode, action |-> ""]
RequestEvent(a) == [type |-> "Request", code |-> NoCode, action |-> a]

\* the acknowledgement O1 [L, value]
Ack(l, val) == Code(LetterO, 1, <<Param(l, val)>>)

\* the records the station sends in this model
StationCodes ==
    { Ack(LetterM, IntVal(1)),
      Ack(LetterS, IntVal(3)),
      Ack(LetterM, BytesVal(<<49>>)),
      Code(LetterO, 1, <<>>) }

\* the events the broker and the decoder send to the scheduler in this model
Events == {CodeErrEvent, RequestEvent("info"), RequestEvent("rapid-weather")}

\* the station's answer to a record it received: the acknowledgement, then
\* the data asked for; it has one sensor, number 3
Reply(c) ==
    <<CodeEvent(Ack(c.letter, IntVal(c.number)))>> \o
    (IF c = request_all_sensors_code
     THEN <<CodeEvent(Code(LetterS, 3, <<Param(LetterN, BytesVal(<<116>>)),
                                          Param(LetterU, BytesVal(<<67>>)),
                                          Param(LetterV, FloatVal(205))>>))>>
     ELSE IF c = request_autos_code
     THEN <<CodeEvent(Code(LetterM, 102, <<Param(LetterV, IntVal(8))>>))>>
     ELSE IF c.letter = LetterS
     THEN <<CodeEvent(Code(LetterS, c.number, <<Param(LetterV, FloatVal(210))>>))>>
     ELSE <<>>)

\* the commands the calling thread issues with a guarantee, and its channels
Commands == {request_all_sensors_code, request_sensor_code(3, TRUE)}
Chans == {1, 2}

\* the history of a waiter: how often update resent it, whether the ack
\* handler removed it, and whether that was before its first due
HistRec(w) ==
    [key |-> w.key, notify |-> w.notify, first_due |-> w.due,
     resent |-> 0, acked |-> FALSE, early |-> FALSE]

Wids(w) == {w[i].wid : i \in 1..Len(w)}
Count(w, key) == Cardinality({i \in 1..Len(w) : w[i].key = key})

EmptyMap == [x \in {} |-> 0]

\* the keys of a BTreeMap<u8, _>, in the order iter() visits them
RECURSIVE Sorted(_)
Sorted(S) ==
    IF S = {} THEN <<>>
    ELSE LET m == CHOOSE x \in S : \A y \in S : x <= y
         IN  <<m>> \o Sorted(S \ {m})

(***************************************************************************)
(* Initial state: after main has built the channels, the command manager,  *)
(* the catalogue, the link and the router, and has spawned the threads     *)
(* (main.rs 87-127, 217).                                                  *)
(***************************************************************************)
InitCmd ==
    /\ waiting = <<>>
    /\ waiting_lock = "free"
    /\ tx_lock = "free"
    /\ on_send = <<>>
    /\ notify = [c \in Chans |-> <<>>]

InitCaller ==
    /\ caller_code = NoCode
    /\ caller_chan = 1
    /\ caller_retry = RetrySecs
    /\ caller_ret = "idle"
    /\ gu_ids = <<>>
    /\ gu_count = 0
    /\ pub_rapid = FALSE
    /\ published = <<>>

InitSched ==
    /\ sched_pc = "top"
    /\ cmd_due = None
    /\ timeout = 0
    /\ sched_now = 0
    /\ sched_cmd = CodeErrEvent
    /\ rapid = FALSE
    /\ rapid_due = 0
    /\ rapid_update_due = 0
    /\ update_due = 0
    /\ rx = <<>>
    /\ update = <<>>

InitRouter ==
    /\ callbacks = code_handler
    /\ invoked = <<>>
    /\ code_ret = FALSE

InitSensors ==
    /\ sensors_lock = "free"
    /\ sensors = EmptyMap
    /\ map = EmptyMap
    /\ put_ret = FALSE

InitLink ==
    /\ link_pc = "read"
    /\ last_send = 0
    /\ bytes_sent = 0
    /\ to_send = <<>>
    /\ link_deadline = 0
    /\ port = <<>>
    /\ writes = <<>>
    /\ dequeued = <<>>

InitHist ==
    /\ hist = <<>>
    /\ produced = 0

Init ==
    /\ clock = 0
    /\ caller_pc = "boot_clock"
    /\ InitCmd /\ InitCaller /\ InitSched /\ InitRouter /\ InitSensors
    /\ InitLink /\ InitHist

(***************************************************************************)
(* CommandManager::command and command_guarentee, as the main thread runs  *)
(* them.                                                                   *)
(***************************************************************************)
\* command (station.rs 205-207); at boot, commands.command(set_clock_code())
\* (main.rs 219); the send succeeds while the link loop holds the receiver
Command ==
    /\ caller_pc \in {"idle", "boot_clock"}
    /\ link_pc # "dead"
    /\ Len(on_send) < MaxOut
    /\ on_send' = Append(on_send, set_clock_code)
    /\ caller_pc' = IF caller_pc = "boot_clock" THEN "boot_m1" ELSE "idle"
    /\ UNCHANGED <<clock, waiting, waiting_lock, tx_lock, notify, callVars, mainVars,
                   timerVars, schedVars, rx, update, routerVars, sensorVars,
                   linkVars, histVars>>

\* command_guarentee(code, tx, retry) is entered: self.waiting.lock()
\* (station.rs 210); ret is where the caller goes on afterwards
GuaranteeLock(code, tx, ret) ==
    /\ waiting_lock = "free"
    /\ Len(hist) < MaxReg
    /\ waiting_lock' = "main"
    /\ caller_code' = code
    /\ caller_chan' = tx
    /\ caller_retry' = RetrySecs
    /\ caller_ret' = ret
    /\ caller_pc' = "cg_send"

\* command_guarentee: self.tx.lock().unwrap().send(code.clone()) (station.rs 211)
GuaranteeSend ==
    /\ caller_pc = "cg_send"
    /\ link_pc # "dead"
    /\ Len(on_send) < MaxOut
    /\ on_send' = Append(on_send, caller_code)
    /\ caller_pc' = "cg_push"
    /\ UNCHANGED <<clock, waiting, waiting_lock, tx_lock, notify, callVars, mainVars,
                   timerVars, schedVars, rx, update, routerVars, sensorVars,
                   linkVars, histVars>>

\* the waiter command_guarentee builds (station.rs 212-218)
NewWaiting(code, now, retry, tx, wid) == Waiting(code, now + retry, retry, tx, wid)

\* command_guarentee: waiting.push(..), and the guard is dropped
\* (station.rs 212-219)
GuaranteePush ==
    /\ caller_pc = "cg_push"
    /\ LET w == NewWaiting(caller_code, clock, caller_retry, caller_chan,
                           Len(hist) + 1)
       IN  /\ waiting' = Append(waiting, w)
           /\ hist' = Append(hist, HistRec(w))
    /\ waiting_lock' = "free"
    /\ caller_pc' = caller_ret
    /\ caller_code' = NoCode
    /\ caller_chan' = 1
    /\ caller_ret' = "idle"
    /\ UNCHANGED <<clock, tx_lock, on_send, notify, caller_retry, mainVars, timerVars,
                   schedVars, rx, update, routerVars, sensorVars, linkVars,
                   produced>>

(***************************************************************************)
(* The main thread: the boot sequence and the publisher loop               *)
(* (main.rs 217-289), get_updates (main.rs 33-46).                         *)
(***************************************************************************)
\* commands.command_guarentee(request_all_sensors_code(), tx.clone(), 1 s)
BootSensors ==
    /\ caller_pc = "boot_m1"
    /\ GuaranteeLock(request_all_sensors_code, 1, "boot_m102")
    /\ UNCHANGED <<clock, waiting, tx_lock, on_send, notify, mainVars, timerVars,
                   schedVars, rx, update, routerVars, sensorVars, linkVars, histVars>>

\* commands.command_guarentee(request_autos_code(), tx.clone(), 1 s)
BootAutos ==
    /\ caller_pc = "boot_m102"
    /\ GuaranteeLock(request_autos_code, 1, "boot_recv1")
    /\ UNCHANGED <<clock, waiting, tx_lock, on_send, notify, mainVars, timerVars,
                   schedVars, rx, update, routerVars, sensorVars, linkVars, histVars>>

\* rx.recv()?; rx.recv()?; (main.rs 226-227)
BootRecv ==
    /\ caller_pc \in {"boot_recv1", "boot_recv2"}
    /\ notify[1] # <<>>
    /\ notify' = [notify EXCEPT ![1] = Tail(@)]
    /\ caller_pc' = IF caller_pc = "boot_recv1" THEN "boot_recv2" ELSE "pub_recv"
    /\ UNCHANGED <<clock, waiting, waiting_lock, tx_lock, on_send, callVars, mainVars,
                   timerVars, schedVars, rx, update, routerVars, sensorVars,
                   linkVars, histVars>>

\* let rapid = on_update.recv().unwrap() (main.rs 239)
PublisherRecv ==
    /\ caller_pc = "pub_recv"
    /\ update # <<>>
    /\ pub_rapid' = Head(update)
    /\ update' = Tail(update)
    /\ caller_pc' = "gu_lock"
    /\ UNCHANGED <<clock, cmdVars, callVars, gu_ids, gu_count, published,
                   timerVars, schedVars, rx, routerVars, sensorVars, linkVars,
                   histVars>>

\* get_updates: a new channel, and sensors.lock().unwrap().iter() (main.rs 34-36)
GetUpdatesLock ==
    /\ caller_pc = "gu_lock"
    /\ sensors_lock = "free"
    /\ sensors_lock' = "main"
    /\ notify' = [notify EXCEPT ![2] = <<>>]
    /\ gu_ids' = Sorted(DOMAIN sensors)
    /\ gu_count' = 0
    /\ caller_pc' = "gu_iter"
    /\ UNCHANGED <<clock, waiting, waiting_lock, tx_lock, on_send, callVars, pub_rapid,
                   published, timerVars, schedVars, rx, update, routerVars,
                   sensors, map, put_ret, linkVars, histVars>>

\* the body of the for loop (main.rs 37-39), the catalogue still locked
GetUpdatesCall ==
    /\ caller_pc = "gu_iter"
    /\ gu_ids # <<>>
    /\ GuaranteeLock(request_sensor_code(Head(gu_ids), TRUE), 2, "gu_iter")
    /\ gu_ids' = Tail(gu_ids)
    /\ gu_count' = gu_count + 1
    /\ UNCHANGED <<clock, waiting, tx_lock, on_send, notify, pub_rapid, published,
                   timerVars, schedVars, rx, update, routerVars, sensorVars,
                   linkVars, histVars>>

\* the for loop ends and the catalogue guard is dropped (main.rs 40)
GetUpdatesUnlock ==
    /\ caller_pc = "gu_iter"
    /\ gu_ids = <<>>
    /\ sensors_lock' = "free"
    /\ caller_pc' = "gu_wait"
    /\ UNCHANGED <<clock, cmdVars, callVars, mainVars, timerVars, schedVars, rx,
                   update, routerVars, sensors, map, put_ret, linkVars, histVars>>

\* the loop of get_updates going on with no receive left out
MoreToRecv_Never(count) == FALSE

\* for _ in 0..count (main.rs 42): a receive is still to be done
MoreToRecv(count) == count > 0

\* for _ in 0..count { rx.recv()?; } (main.rs 42-44)
GetUpdatesRecv ==
    /\ caller_pc = "gu_wait"
    /\ MoreToRecv(gu_count)
    /\ notify[2] # <<>>
    /\ notify' = [notify EXCEPT ![2] = Tail(@)]
    /\ gu_count' = gu_count - 1
    /\ UNCHANGED <<clock, waiting, waiting_lock, tx_lock, on_send, caller_pc, callVars,
                   gu_ids, pub_rapid, published, timerVars, schedVars, rx,
                   update, routerVars, sensorVars, linkVars, histVars>>

\* get_updates returns; let s = sensors.lock().unwrap() and the update is
\* composed (main.rs 45, 242-286)
Snapshot ==
    /\ caller_pc = "gu_wait"
    /\ ~MoreToRecv(gu_count)
    /\ sensors_lock = "free"
    /\ sensors_lock' = "main"
    /\ caller_pc' = "publish"
    /\ UNCHANGED <<clock, cmdVars, callVars, mainVars, timerVars, schedVars, rx,
                   update, routerVars, sensors, map, put_ret, linkVars, histVars>>

\* conf.mqtt.id, the id of the station in the topics
StationId == "ws"

\* publish_update sending every update to the weather endpoint
publish_update_Weather(rap, id) == <<"station", "weather", id>>

\* Mqtt::publish_update (mqtt.rs 56-67): the topic the update is sent to,
\* /station/{endpoint}/{id}
publish_update(rap, id) ==
    <<"station", IF rap THEN "rapid-weather" ELSE "weather", id>>

\* mqtt.publish_update(update, rapid)?, then s is dropped (main.rs 288-289)
Publish ==
    /\ caller_pc = "publish"
    /\ published' = Append(published, publish_update(pub_rapid, StationId))
    /\ sensors_lock' = "free"
    /\ caller_pc' = "pub_recv"
    /\ UNCHANGED <<clock, cmdVars, callVars, gu_ids, gu_count, pub_rapid,
                   timerVars, schedVars, rx, update, routerVars, sensors, map,
                   put_ret, linkVars, histVars>>

(***************************************************************************)
(* The scheduler thread (main.rs 128-215).                                 *)
(***************************************************************************)
\* let cmd_due = cmd.earliest_due() (main.rs 129)
SchedCmdDue ==
    /\ sched_pc = "top"
    /\ waiting_lock = "free"
    /\ cmd_due' = earliest_due(waiting)
    /\ sched_pc' = "timeout"
    /\ UNCHANGED <<clock, cmdVars, callerVars, timerVars, timeout, sched_now,
                   sched_cmd, rx, update, routerVars, sensorVars, linkVars, histVars>>

\* the timeout of main.rs 130-139 alone, the rapid timers left out
Timeout_NoRapid(due, upd, rap, rdue, rupd) ==
    IF due.some THEN (IF due.v < upd THEN due.v ELSE upd) ELSE upd

\* the timeout of main.rs 130-142
Timeout(due, upd, rap, rdue, rupd) ==
    LET t == IF due.some THEN (IF due.v < upd THEN due.v ELSE upd) ELSE upd
    IN  IF rap THEN Min2(Min2(t, rdue), rupd) ELSE t

\* let mut timeout = match cmd.earliest_due() {..} (main.rs 130-142): the
\* waiters are read a second time; then let now = Instant::now(); if
\* timeout < now {..} else rx.recv_timeout(timeout - now) (main.rs 144-145, 164)
SchedTimeout ==
    /\ sched_pc = "timeout"
    /\ waiting_lock = "free"
    /\ LET t == Timeout(earliest_due(waiting), update_due, rapid, rapid_due,
                        rapid_update_due)
       IN  /\ timeout' = t
           /\ sched_pc' = IF t < clock THEN "mature" ELSE "recv"
    /\ sched_now' = clock
    /\ UNCHANGED <<clock, cmdVars, callerVars, timerVars, cmd_due,
                   sched_cmd, rx, update, routerVars, sensorVars, linkVars, histVars>>

\* recv_timeout times out; let now = Instant::now() (main.rs 164-165)
SchedRecvTimeout ==
    /\ sched_pc = "recv"
    /\ rx = <<>>
    /\ clock >= timeout
    /\ sched_now' = clock
    /\ sched_pc' = "mature"
    /\ UNCHANGED <<clock, cmdVars, callerVars, timerVars, cmd_due, timeout,
                   sched_cmd, rx, update, routerVars, sensorVars, linkVars, histVars>>

\* the history after update resent the waiters in `resent`
HistResent(h, resent) ==
    [i \in 1..Len(h) |->
        IF i \in Wids(resent) THEN [h[i] EXCEPT !.resent = @ + 1] ELSE h[i]]

\* the codes of a sequence of waiters
RECURSIVE Codes(_)
Codes(w) == IF w = <<>> THEN <<>> ELSE <<Head(w).code>> \o Codes(Tail(w))

\* cmd.update() (station.rs 221-229), run when `tick` holds; its send
\* succeeds while the link loop holds the receiver of on_send
Tick_update(tick) ==
    LET resent == IF tick THEN UpdateResent(waiting, clock) ELSE <<>>
    IN  /\ tick => waiting_lock = "free"
        /\ resent # <<>> => link_pc # "dead"
        /\ Len(on_send) + Len(resent) <= MaxOut
        /\ waiting' = IF tick THEN UpdateWaiting(waiting, clock) ELSE waiting
        /\ on_send' = on_send \o Codes(resent)
        /\ hist' = HistResent(hist, resent)

\* if update_due <= now (main.rs 151, 171)
NormalDue(upd, now) == upd <= now

\* the update timer rearmed 2500 ms ahead
NextUpdateDue_Short(now) == now + RapidUpdateEvery

\* update_due = Instant::now() + Duration::from_secs(60) (main.rs 152, 172)
NextUpdateDue(now) == now + UpdatePeriod

\* if rapid && rapid_update_due <= now (main.rs 155, 175)
FastDue(rap, rupd, now) == rap /\ rupd <= now

\* the test of the rapid period with the comparison turned round
RapidOver_Before(rap, rdue, now) == rap /\ now <= rdue

\* if rapid && rapid_due <= now (main.rs 159, 179)
RapidOver(rap, rdue, now) == rap /\ rdue <= now

\* the maturation pass (main.rs 146-162 and 165-182) with the `now` it was
\* given; cmd.update() reads the clock again under the lock
SchedMature ==
    /\ sched_pc = "mature"
    /\ Tick_update(cmd_due.some /\ cmd_due.v <= sched_now)
    /\ LET normal == NormalDue(update_due, sched_now)
           fast == FastDue(rapid, rapid_update_due, sched_now)
           sent == (IF normal THEN <<FALSE>> ELSE <<>>)
                       \o (IF fast THEN <<TRUE>> ELSE <<>>)
       IN  /\ Len(update) + Len(sent) <= MaxUpdates
           /\ update_due' = IF normal THEN NextUpdateDue(clock) ELSE update_due
           /\ rapid_update_due' =
                 IF fast THEN clock + RapidUpdateEvery ELSE rapid_update_due
           /\ update' = update \o sent
           /\ rapid' = IF RapidOver(rapid, rapid_due, sched_now) THEN FALSE ELSE rapid
    /\ sched_pc' = "top"
    /\ UNCHANGED <<clock, waiting_lock, tx_lock, notify, callerVars, rapid_due, cmd_due,
                   timeout, sched_now, sched_cmd, rx, routerVars, sensorVars,
                   linkVars, produced>>

\* the history after the handlers removed the waiters in `gone`
HistAcked(h, gone, now) ==
    [i \in 1..Len(h) |->
        IF i \in gone
        THEN [h[i] EXCEPT !.acked = TRUE, !.early = now < h[i].first_due]
        ELSE h[i]]

\* the handlers running without their mutexes
LocksFree_Always(code) == TRUE

\* the mutexes the handlers matching `code` lock are free
LocksFree(code) ==
    /\ (\E i \in 1..Len(callbacks) :
            /\ callbacks[i].name = "on_command"
            /\ RuleMatches(callbacks[i].rule, code)) => waiting_lock = "free"
    /\ (\E i \in 1..Len(callbacks) :
            /\ callbacks[i].name \in {"sensor_callback", "autos_callback"}
            /\ RuleMatches(callbacks[i].rule, code)) => sensors_lock = "free"

\* code_handler.code(code) (station.rs 153-160) on the program's state
Dispatch(code) ==
    /\ LocksFree(code)
    /\ LET st == [waiting |-> waiting, notify |-> notify, sensors |-> sensors,
                  map |-> map]
           r == CodeFrom(callbacks, 1, code, st, clock, <<>>)
       IN  /\ waiting' = r.st.waiting
           /\ notify' = r.st.notify
           /\ sensors' = r.st.sensors
           /\ map' = r.st.map
           /\ invoked' = r.log
           /\ code_ret' = r.ret
           /\ hist' = HistAcked(hist, Wids(waiting) \ Wids(r.st.waiting), clock)

\* recv_timeout returns ChannelType::Code(code) => code_handler.code(code)
\* (main.rs 164, 186-188)
SchedCode ==
    /\ sched_pc = "recv"
    /\ rx # <<>>
    /\ Head(rx).type = "Code"
    /\ Dispatch(Head(rx).code)
    /\ sched_cmd' = Head(rx)
    /\ rx' = Tail(rx)
    /\ sched_pc' = "top"
    /\ UNCHANGED <<clock, waiting_lock, tx_lock, on_send, callerVars, timerVars, cmd_due,
                   timeout, sched_now, update, callbacks, sensors_lock, put_ret,
                   linkVars, produced>>

\* recv_timeout returns ChannelType::CodeErr(err) => eprintln!, or a request
\* "info" (the identification is published) or unknown (main.rs 189-206, 212)
SchedOther ==
    /\ sched_pc = "recv"
    /\ rx # <<>>
    /\ \/ Head(rx).type = "CodeErr"
       \/ Head(rx).type = "Request" /\ Head(rx).action # "rapid-weather"
    /\ rx' = Tail(rx)
    /\ sched_pc' = "top"
    /\ UNCHANGED <<clock, cmdVars, callerVars, timerVars, cmd_due, timeout,
                   sched_now, sched_cmd, update, routerVars, sensorVars,
                   linkVars, histVars>>

\* recv_timeout returns the request "rapid-weather" (main.rs 207-211)
SchedRapid ==
    /\ sched_pc = "recv"
    /\ rx # <<>>
    /\ Head(rx).type = "Request" /\ Head(rx).action = "rapid-weather"
    /\ rapid' = TRUE
    /\ rapid_due' = clock + RapidPeriod
    /\ rapid_update_due' = clock
    /\ rx' = Tail(rx)
    /\ sched_pc' = "top"
    /\ UNCHANGED <<clock, cmdVars, callerVars, update_due, cmd_due, timeout,
                   sched_now, sched_cmd, update, routerVars, sensorVars,
                   linkVars, histVars>>

(***************************************************************************)
(* The environment: the broker and the decoder produce events; the link    *)
(* takes a record from on_send and the station answers it or not; time     *)
(* passes.                                                                 *)
(***************************************************************************)
Produce ==
    /\ produced < MaxEvents
    /\ Len(rx) < MaxRx
    /\ \E e \in Events : rx' = Append(rx, e)
    /\ produced' = produced + 1
    /\ UNCHANGED <<clock, cmdVars, callerVars, timerVars, schedVars, update,
                   routerVars, sensorVars, linkVars, hist>>

\* the link loop takes a record (station.rs 92) and writes it; the record
\* is lost on the way, or the station's answer arrives
Transmit ==
    /\ link_pc # "dead"
    /\ on_send # <<>>
    /\ on_send' = Tail(on_send)
    /\ \/ rx' = rx
       \/ /\ Len(rx) + Len(Reply(Head(on_send))) <= MaxRx
          /\ rx' = rx \o Reply(Head(on_send))
    /\ UNCHANGED <<clock, waiting, waiting_lock, tx_lock, notify, callerVars, timerVars,
                   schedVars, update, routerVars, sensorVars, linkVars, histVars>>

Advance ==
    /\ clock + Tick <= MaxClock
    /\ clock' = clock + Tick
    /\ UNCHANGED <<cmdVars, callerVars, timerVars, schedVars, rx, update,
                   routerVars, sensorVars, linkVars, histVars>>

\* time passes only while the scheduler is blocked in recv_timeout, and not
\* past its deadline: the scheduler's own steps take no time
AdvanceBlocked ==
    /\ sched_pc = "recv"
    /\ rx = <<>>
    /\ clock < timeout
    /\ waiting_lock = "free"
    /\ Advance

\* The program: the main thread, the scheduler thread and the environment.
Next ==
    \/ Command \/ BootSensors \/ BootAutos \/ GuaranteeSend \/ GuaranteePush
    \/ BootRecv \/ PublisherRecv \/ GetUpdatesLock \/ GetUpdatesCall
    \/ GetUpdatesUnlock \/ GetUpdatesRecv \/ Snapshot \/ Publish
    \/ SchedCmdDue \/ SchedTimeout \/ SchedRecvTimeout
    \/ SchedMature \/ SchedCode \/ SchedOther \/ SchedRapid
    \/ Produce \/ Transmit \/ AdvanceBlocked

Spec == Init /\ [][Next]_vars

(***************************************************************************)
(* The command manager on its own: a thread that issues any commands, the  *)
(* ack handler run through the router on any record, update called at any  *)
(* time.  The k-th call of command_guarentee passes the channel k mod 2;   *)
(* the notify channels are not read, they keep all that was sent.          *)
(***************************************************************************)
GuaranteeAny ==
    /\ caller_pc = "idle"
    /\ \E code \in Commands : GuaranteeLock(code, (Len(hist) % 2) + 1, "idle")
    /\ UNCHANGED <<clock, waiting, tx_lock, on_send, notify, mainVars, timerVars,
                   schedVars, rx, update, routerVars, sensorVars, linkVars, histVars>>

\* a record of the station reaches the router: code_handler.code(code)
Route ==
    /\ produced < MaxRouted
    /\ \E c \in StationCodes :
          /\ Dispatch(c)
          /\ sched_cmd' = CodeEvent(c)
    /\ produced' = produced + 1
    /\ UNCHANGED <<clock, waiting_lock, tx_lock, on_send, callerVars, timerVars, sched_pc,
                   cmd_due, timeout, sched_now, rx, update, callbacks,
                   sensors_lock, put_ret, linkVars>>

\* the link loop takes a record (station.rs 92)
LinkTake ==
    /\ on_send # <<>>
    /\ on_send' = Tail(on_send)
    /\ UNCHANGED <<clock, waiting, waiting_lock, tx_lock, notify, callerVars, timerVars,
                   schedVars, rx, update, routerVars, sensorVars, linkVars, histVars>>

\* update (station.rs 221-229)
Update ==
    /\ Tick_update(TRUE)
    /\ UNCHANGED <<clock, waiting_lock, tx_lock, notify, callerVars, timerVars, schedVars,
                   rx, update, routerVars, sensorVars, linkVars, produced>>

InitCmdOnly ==
    /\ clock = 0
    /\ caller_pc = "idle"
    /\ InitCmd /\ InitCaller /\ InitSched /\ InitRouter /\ InitSensors
    /\ InitLink /\ InitHist

NextCmd ==
    \/ Command \/ GuaranteeAny \/ GuaranteeSend \/ GuaranteePush
    \/ Route \/ Update \/ LinkTake \/ Advance

SpecCmd == InitCmdOnly /\ [][NextCmd]_vars

(***************************************************************************)
(* The scheduler thread (main.rs 128-215) on its own, over a minute and   *)
(* more: requests and records arrive at any time, the update channel is   *)
(* read at any time, no command is waiting.  Time passes only while the   *)
(* scheduler is blocked in recv_timeout, and not past its deadline.       *)
(***************************************************************************)
\* the events sent to the scheduler
SchedEvents ==
    {RequestEvent("rapid-weather"), RequestEvent("info"),
     CodeEvent(Ack(LetterM, IntVal(1)))}

\* the broker or the link sends an event (mqtt.rs 38, station.rs 122)
Request ==
    /\ produced < MaxRequests
    /\ Len(rx) < MaxRx
    /\ \E e \in SchedEvents : rx' = Append(rx, e)
    /\ produced' = produced + 1
    /\ UNCHANGED <<clock, cmdVars, callerVars, timerVars, schedVars, update,
                   routerVars, sensorVars, linkVars, hist>>

\* on_update.recv() (main.rs 239): the publisher takes an update request
UpdateTake ==
    /\ update # <<>>
    /\ update' = Tail(update)
    /\ UNCHANGED <<clock, cmdVars, callerVars, timerVars, schedVars, rx,
                   routerVars, sensorVars, linkVars, histVars>>

SchedAdvance ==
    /\ sched_pc = "recv"
    /\ rx = <<>>
    /\ clock < timeout
    /\ clock + TimerTick <= MaxTimerClock
    /\ clock' = clock + TimerTick
    /\ UNCHANGED <<cmdVars, callerVars, timerVars, schedVars, rx, update,
                   routerVars, sensorVars, linkVars, histVars>>

NextSched ==
    \/ SchedCmdDue \/ SchedTimeout \/ SchedRecvTimeout \/ SchedMature
    \/ SchedCode \/ SchedOther \/ SchedRapid
    \/ Request \/ UpdateTake \/ SchedAdvance

SpecSched == InitCmdOnly /\ [][NextSched]_vars

(***************************************************************************)
(* The publisher loop (main.rs 238-289) with the scheduler, the link and   *)
(* the station, after the boot: the catalogue holds any of the sensors of  *)
(* PubIds, and the station answers or loses the records it is sent.        *)
(***************************************************************************)
\* the sensors the station may have declared during the boot
PubIds == {3, 4}

\* the catalogue and its index after the station declared the sensors ids
Catalogue(ids) == [id \in ids |-> SensorRec(<<100 + id>>, <<67>>, id, 205, 0)]
NameIndex(ids) == [n \in {<<100 + id>> : id \in ids} |-> n[1] - 100]

InitPub ==
    /\ clock = 0
    /\ caller_pc = "pub_recv"
    /\ InitCmd /\ InitCaller /\ InitSched /\ InitRouter /\ InitLink /\ InitHist
    /\ sensors_lock = "free"
    /\ put_ret = FALSE
    /\ \E ids \in SUBSET PubIds :
          /\ sensors = Catalogue(ids)
          /\ map = NameIndex(ids)

NextPub ==
    \/ PublisherRecv \/ GetUpdatesLock \/ GetUpdatesCall \/ GuaranteeSend
    \/ GuaranteePush \/ GetUpdatesUnlock \/ GetUpdatesRecv \/ Snapshot
    \/ Publish
    \/ SchedCmdDue \/ SchedTimeout \/ SchedRecvTimeout
    \/ SchedMature \/ SchedCode \/ SchedOther \/ SchedRapid
    \/ Produce \/ Transmit \/ AdvanceBlocked

SpecPub == InitPub /\ [][NextPub]_vars

(***************************************************************************)
(* The program with a link loop that fails: StationReader::main returns    *)
(* the error of uart.read, Code::try_from, dump_binary_vec or uart.write   *)
(* (station.rs 90, 94, 95, 112) to the closure of thread::spawn            *)
(* (main.rs 115), which drops it; the reader is dropped and with it the    *)
(* receiver of on_send, so that every later send(..).unwrap() on that      *)
(* channel panics (station.rs 206, 211, 227).  A panic of the main thread  *)
(* ends the process; a panic of the scheduler thread ends that thread and  *)
(* poisons the `waiting` mutex it holds.                                   *)
(***************************************************************************)
\* the link loop returns Err(..) and its thread ends (station.rs 90-112,
\* main.rs 115)
LinkFail ==
    /\ link_pc # "dead"
    /\ link_pc' = "dead"
    /\ UNCHANGED <<clock, cmdVars, callerVars, timerVars, schedVars, rx, update,
                   routerVars, sensorVars, last_send, bytes_sent, to_send,
                   link_deadline, port, writes, dequeued, histVars>>

\* the main thread is about to send on on_send: in command (main.rs 219), or
\* in command_guarentee, before or after its lock (main.rs 220, 225, 38)
MainSending ==
    \/ caller_pc \in {"boot_clock", "boot_m1", "boot_m102", "cg_send"}
    \/ caller_pc = "gu_iter" /\ gu_ids # <<>>

\* send(code).unwrap() panics in the main thread, or waiting.lock().unwrap()
\* on the poisoned mutex does (station.rs 206, 210, 211): the process ends,
\* and its threads with it
MainPanic ==
    /\ MainSending
    /\ link_pc = "dead"
    /\ waiting_lock # "main" \/ caller_pc = "cg_send"
    /\ caller_pc' = "exited"
    /\ sched_pc' = "exited"
    /\ UNCHANGED <<clock, cmdVars, callVars, mainVars, timerVars, cmd_due,
                   timeout, sched_now, sched_cmd, rx, update, routerVars,
                   sensorVars, linkVars, histVars>>

\* cmd.update() has a waiter to resend and send(..).unwrap() panics in the
\* scheduler thread (station.rs 227), the `waiting` guard held
SchedUpdatePanic ==
    /\ sched_pc = "mature"
    /\ link_pc = "dead"
    /\ cmd_due.some /\ cmd_due.v <= sched_now
    /\ waiting_lock = "free"
    /\ UpdateResent(waiting, clock) # <<>>
    /\ sched_pc' = "panicked"
    /\ waiting_lock' = "poisoned"
    /\ UNCHANGED <<clock, waiting, tx_lock, on_send, notify, callerVars, timerVars,
                   cmd_due, timeout, sched_now, sched_cmd, rx, update,
                   routerVars, sensorVars, linkVars, histVars>>

\* with the link gone, time passes until the deadline of the scheduler's
\* recv_timeout
DeadAdvance ==
    /\ link_pc = "dead"
    /\ sched_pc = "recv"
    /\ rx = <<>>
    /\ clock < timeout
    /\ waiting_lock = "free"
    /\ clock' = timeout
    /\ UNCHANGED <<cmdVars, callerVars, timerVars, schedVars, rx, update,
                   routerVars, sensorVars, linkVars, histVars>>

MainSteps ==
    \/ Command \/ BootSensors \/ BootAutos \/ GuaranteeSend \/ GuaranteePush
    \/ BootRecv \/ PublisherRecv \/ GetUpdatesLock \/ GetUpdatesCall
    \/ GetUpdatesUnlock \/ GetUpdatesRecv \/ Snapshot \/ Publish
    \/ MainPanic

SchedSteps ==
    \/ SchedCmdDue \/ SchedTimeout \/ SchedRecvTimeout
    \/ SchedMature \/ SchedCode \/ SchedUpdatePanic

TimeSteps == AdvanceBlocked \/ DeadAdvance

NextFail == MainSteps \/ SchedSteps \/ TimeSteps \/ Transmit \/ LinkFail

\* the threads that can run do run, and time passes; the station and the
\* failure of the link are free to happen or not; the broker sends nothing
SpecFail ==
    /\ Init /\ [][NextFail]_vars
    /\ WF_vars(MainSteps)
    /\ WF_vars(SchedSteps)
    /\ WF_vars(TimeSteps)

(***************************************************************************)
(* The auto-mode records: the router with the handlers of main on a        *)
(* catalogue of sensors, M102 records with any parameters routed to it.    *)
(***************************************************************************)
\* the catalogues: sensors 0..5, or two of them
AutosCatalogues == {0..5, {0, 5}}

\* the parameters of the M102 records: E n, D n, V x
AutosParams ==
    {Param(69, IntVal(n)) : n \in {1, 4, 5}}
        \cup {Param(68, IntVal(n)) : n \in {1, 4, 5}}
        \cup {Param(LetterV, IntVal(x)) : x \in {15, 42}}

\* the M102 records: up to two parameters in any order, and V, E, D or
\* V, D, E
AutosCodes ==
    {Code(LetterM, 102, ps) :
        ps \in {<<>>} \cup {<<p>> : p \in AutosParams}
                  \cup {<<p, q>> : p \in AutosParams, q \in AutosParams}
                  \cup {<<Param(LetterV, IntVal(x)), p, q>> :
                           x \in {15, 42},
                           p \in {r \in AutosParams : r.letter # LetterV},
                           q \in {r \in AutosParams : r.letter # LetterV}}}

InitAutos ==
    /\ clock = 0
    /\ caller_pc = "idle"
    /\ InitCmd /\ InitCaller /\ InitSched /\ InitRouter /\ InitLink /\ InitHist
    /\ sensors_lock = "free"
    /\ put_ret = FALSE
    /\ \E ids \in AutosCatalogues :
          /\ sensors = Catalogue(ids)
          /\ map = NameIndex(ids)

\* an M102 record of the station reaches the router: code_handler.code(code)
\* (main.rs 186-188)
AutosRoute ==
    /\ \E c \in AutosCodes :
          /\ Dispatch(c)
          /\ sched_cmd' = CodeEvent(c)
    /\ UNCHANGED <<clock, waiting_lock, tx_lock, on_send, callerVars, timerVars, sched_pc,
                   cmd_due, timeout, sched_now, rx, update, callbacks,
                   sensors_lock, put_ret, linkVars, produced>>

SpecAutos == InitAutos /\ [][AutosRoute]_vars

(***************************************************************************)
(* The link loop, StationReader::main (station.rs 84-131), on its own:    *)
(* records arrive on on_send at any time; the port has nothing to read.   *)
(* Time passes only while the loop is blocked in recv_timeout.            *)
(***************************************************************************)
\* the bytes of a parameter value: bytes with their length, a number in
\* four bytes
ValueBytes(val) ==
    IF val.t = "bytes" THEN <<Len(val.b)>> \o val.b
    ELSE <<(val.v \div 16777216) % 256, (val.v \div 65536) % 256,
           (val.v \div 256) % 256, val.v % 256>>

RECURSIVE ParamsBytes(_)
ParamsBytes(ps) ==
    IF ps = <<>> THEN <<>>
    ELSE <<Head(ps).letter>> \o ValueBytes(Head(ps).value) \o ParamsBytes(Tail(ps))

\* Code::try_from(to_send)?.dump_binary_vec()? (station.rs 94-95): the
\* record's letter and number, then its parameters in order
Encode(code) == <<code.letter, code.number>> \o ParamsBytes(code.params)

\* the encodings of a sequence of records, one after the other
RECURSIVE EncodeAll(_)
EncodeAll(cs) == IF cs = <<>> THEN <<>> ELSE Encode(Head(cs)) \o EncodeAll(Tail(cs))

\* the payload lengths of the records given to the link loop: with the four
\* bytes around them the records take 30, 60 and 70 bytes
LinkPayloads == {26, 56, 66}

\* the n-th record given to the link loop, with a payload of p bytes
LinkCode(n, p) == Code(LetterM, n, <<Param(LetterV, BytesVal([k \in 1..p |-> n]))>>)

\* Vec::drain(0..len) removing the whole vector
DrainFront_All(ts, len) == <<>>

\* Vec::drain(0..len) (station.rs 113)
DrainFront(ts, len) == SubSeq(ts, len + 1, Len(ts))

\* the window over as soon as 150 ms have passed
WindowOver_AtLeast(now, ls) == now - ls >= WindowMs

\* (now - self.last_send) > Duration::from_millis(150) (station.rs 101)
WindowOver(now, ls) == now - ls > WindowMs

\* a producer sends a record on the outbound channel
Enqueue ==
    /\ Len(dequeued) + Len(on_send) < MaxLinkRecs
    /\ \E p \in LinkPayloads :
          on_send' = Append(on_send, LinkCode(Len(dequeued) + Len(on_send) + 1, p))
    /\ UNCHANGED <<clock, waiting, waiting_lock, tx_lock, notify, callerVars, timerVars,
                   schedVars, rx, update, routerVars, sensorVars, linkVars, histVars>>

\* let len = self.uart.read(&mut buf)? returns 0, and the loop enters
\* on_send.recv_timeout(150 ms) (station.rs 90-92)
LinkRead ==
    /\ link_pc = "read"
    /\ link_pc' = "wait"
    /\ link_deadline' = clock + RecvTimeoutMs
    /\ UNCHANGED <<clock, cmdVars, callerVars, timerVars, schedVars, rx, update,
                   routerVars, sensorVars, last_send, bytes_sent, to_send, port,
                   writes, dequeued, histVars>>

\* recv_timeout returns Ok(to_send): the record is encoded and appended to
\* the pending buffer (station.rs 93-96)
LinkRecv ==
    /\ link_pc = "wait"
    /\ on_send # <<>>
    /\ to_send' = to_send \o Encode(Head(on_send))
    /\ dequeued' = Append(dequeued, Head(on_send))
    /\ on_send' = Tail(on_send)
    /\ link_pc' = "pace"
    /\ UNCHANGED <<clock, waiting, waiting_lock, tx_lock, notify, callerVars, timerVars,
                   schedVars, rx, update, routerVars, sensorVars, last_send,
                   bytes_sent, link_deadline, port, writes, histVars>>

\* recv_timeout returns Err(_) after 150 ms (station.rs 98)
LinkRecvTimeout ==
    /\ link_pc = "wait"
    /\ on_send = <<>>
    /\ clock >= link_deadline
    /\ link_pc' = "pace"
    /\ UNCHANGED <<clock, cmdVars, callerVars, timerVars, schedVars, rx, update,
                   routerVars, sensorVars, last_send, bytes_sent, to_send,
                   link_deadline, port, writes, dequeued, histVars>>

\* if !self.to_send.is_empty() {..} continue (station.rs 99-117): the window
\* is reset when it is over, and what the budget allows is written to the
\* port, which takes all of it, and drained from the pending buffer
LinkPace ==
    /\ link_pc = "pace"
    /\ link_pc' = "read"
    /\ IF to_send = <<>>
       THEN UNCHANGED <<last_send, bytes_sent, to_send, port, writes>>
       ELSE LET reset == WindowOver(clock, last_send)
                sent == IF reset THEN 0 ELSE bytes_sent
                allotment == BudgetBytes - sent
                len == Min2(Len(to_send), allotment)
            IN  /\ last_send' = IF reset THEN clock ELSE last_send
                /\ IF allotment <= 0
                   THEN /\ bytes_sent' = sent
                        /\ UNCHANGED <<to_send, port, writes>>
                   ELSE /\ port' = port \o SubSeq(to_send, 1, len)
                        /\ writes' = Append(writes, [at |-> clock, len |-> len])
                        /\ to_send' = DrainFront(to_send, len)
                        /\ bytes_sent' = sent + len
    /\ UNCHANGED <<clock, cmdVars, callerVars, timerVars, schedVars, rx, update,
                   routerVars, sensorVars, link_deadline, dequeued, histVars>>

\* time passes while the link loop is blocked in recv_timeout with nothing
\* to receive, and not past its deadline
LinkAdvance ==
    /\ link_pc = "wait"
    /\ on_send = <<>>
    /\ clock < link_deadline
    /\ clock + LinkTick <= MaxLinkClock
    /\ clock' = clock + LinkTick
    /\ UNCHANGED <<cmdVars, callerVars, timerVars, schedVars, rx, update,
                   routerVars, sensorVars, linkVars, histVars>>

NextLink ==
    \/ Enqueue \/ LinkRead \/ LinkRecv \/ LinkRecvTimeout \/ LinkPace
    \/ LinkAdvance

SpecLink == InitCmdOnly /\ [][NextLink]_vars

(***************************************************************************)
(* The router, CodeHandler (station.rs 134-161), on its own: any handlers *)
(* are registered, each accepting the records of a set, and any record is *)
(* routed.                                                                *)
(***************************************************************************)
\* the records routed
RouterCodes == {Code(LetterM, 1, <<>>), Code(LetterM, 2, <<>>), Code(LetterS, 1, <<>>)}

\* the rules of the handlers registered
RouterRules == {RuleNew(LetterM, 1), RuleLetter(LetterM), RuleNumber(1), RuleDefault}

\* the sets of records a handler accepts
RouterAccepts == {{}, {Code(LetterM, 1, <<>>)}, RouterCodes}

\* CodeHandler::callback (station.rs 145-151)
RouterCallback ==
    /\ Len(callbacks) < MaxCallbacks
    /\ \E r \in RouterRules, acc \in RouterAccepts :
          callbacks' = Append(callbacks, Callback(r, "handler", acc))
    /\ UNCHANGED <<clock, cmdVars, callerVars, timerVars, schedVars, rx, update,
                   invoked, code_ret, sensorVars, linkVars, histVars>>

\* CodeHandler::code (station.rs 153-160) on any record
RouterCode ==
    /\ \E c \in RouterCodes :
          /\ Dispatch(c)
          /\ sched_cmd' = CodeEvent(c)
    /\ produced' = 1
    /\ UNCHANGED <<clock, waiting_lock, tx_lock, on_send, callerVars, timerVars, sched_pc,
                   cmd_due, timeout, sched_now, rx, update, callbacks,
                   sensors_lock, put_ret, linkVars>>

\* CodeHandler::new (station.rs 139-143)
InitRouterOnly ==
    /\ clock = 0
    /\ caller_pc = "idle"
    /\ InitCmd /\ InitCaller /\ InitSched /\ InitSensors /\ InitLink /\ InitHist
    /\ callbacks = <<>>
    /\ invoked = <<>>
    /\ code_ret = FALSE

NextRouter == RouterCallback \/ RouterCode

SpecRouter == InitRouterOnly /\ [][NextRouter]_vars

(***************************************************************************)
(* The catalogue, Sensors (sensor.rs 31-113), on its own: put is called   *)
(* with any record, at any time.                                          *)
(***************************************************************************)
\* the names and units the records carry; the byte 200 is not UTF-8
SensorNames == {<<97>>, <<98>>, <<200>>}
SensorUnits == {<<67>>, <<70>>}

\* the values the records carry: a float, the text "21.5", an integer and
\* the text "x"
SensorValues ==
    {FloatVal(205), BytesVal(<<50, 49, 46, 53>>), IntVal(3), BytesVal(<<120>>)}

\* the text "temperature"
Temperature == <<116, 101, 109, 112, 101, 114, 97, 116, 117, 114, 101>>

\* the record S1 [N=temperature, U=C, V=20.5]
TemperatureCode ==
    Code(LetterS, 1, <<Param(LetterN, BytesVal(Temperature)),
                       Param(LetterU, BytesVal(<<67>>)),
                       Param(LetterV, BytesVal(<<50, 48, 46, 53>>))>>)

\* the records given to put, for the sensors 1 and 2
SensorCodes ==
    {Code(LetterS, id, <<Param(LetterN, BytesVal(n)), Param(LetterU, BytesVal(u)),
                         Param(LetterV, FloatVal(205))>>) :
        id \in {1, 2}, n \in SensorNames, u \in SensorUnits}
    \cup {Code(LetterS, id, <<Param(LetterV, v)>>) : id \in {1, 2}, v \in SensorValues}
    \cup {Code(LetterS, 1, <<Param(LetterN, BytesVal(<<97>>)),
                             Param(LetterV, BytesVal(<<50, 49, 46, 53>>))>>),
          Code(LetterS, 2, <<Param(LetterN, BytesVal(<<97>>)),
                             Param(LetterU, BytesVal(<<67>>))>>),
          Code(LetterM, 1, <<Param(LetterV, FloatVal(205))>>),
          TemperatureCode}

\* Sensors::put(&code) (sensor.rs 56-95)
SensorsPut ==
    /\ \E code \in SensorCodes :
          LET r == put(sensors, map, code, clock)
          IN  /\ sensors' = r.sensors
              /\ map' = r.map
              /\ put_ret' = r.ret
              /\ sched_cmd' = CodeEvent(code)
    /\ produced' = 1
    /\ UNCHANGED <<clock, cmdVars, callerVars, timerVars, sched_pc, cmd_due,
                   timeout, sched_now, rx, update, routerVars, sensors_lock,
                   linkVars, hist>>

NextSensors == SensorsPut \/ Advance

SpecSensors == InitCmdOnly /\ [][NextSensors]_vars

(***************************************************************************)
(* Properties of the command manager and the scheduler.                   *)
(***************************************************************************)
\* the record is an acknowledgement O1 whose first parameter is (L, N)
IsAck(code) ==
    /\ code.letter = LetterO /\ code.number = 1
    /\ code.params # <<>>
    /\ CastU8(Head(code.params).value).ok

\* the key (L, N) the acknowledgement carries
AckKey(code) ==
    <<Head(code.params).letter, CastU8(Head(code.params).value).v>>

\* the waiters that a step removes from the vector
Removed == Wids(waiting) \ Wids(waiting')

\* C1: retry on silence.  A waiter that is not acknowledged is retransmitted
\* once per retry interval: no waiter stays in the vector for a whole retry
\* interval past its due without update having resent it (which moves its
\* due on), whenever it was registered.
C1_RetryEachInterval ==
    \A i \in 1..Len(waiting) : clock < waiting[i].due + waiting[i].retry

\* C2: an O1 record with first parameter (L, N), routed while a waiter with
\* key (L, N) is registered, removes exactly one waiter, one with that key,
\* leaves every other waiter as it was, and sends (L, N) once, on the
\* removed waiter's notify channel and on no other.
C2_AckRemovesOne ==
    [][ (/\ produced' # produced
         /\ IsAck(sched_cmd'.code)
         /\ Count(waiting, AckKey(sched_cmd'.code)) >= 1)
        => LET key == AckKey(sched_cmd'.code)
           IN  /\ Count(waiting', key) = Count(waiting, key) - 1
               /\ Len(waiting') = Len(waiting) - 1
               /\ \E i \in 1..Len(waiting) :
                     /\ waiting[i].key = key
                     /\ Removed = {waiting[i].wid}
                     /\ notify' = [notify EXCEPT ![waiting[i].notify] =
                                      Append(@, key)]
               /\ \A j \in 1..Len(waiting') :
                     \E k \in 1..Len(waiting) : waiting'[j] = waiting[k]
      ]_vars

\* C2 happens: of two waiters registered with the same key one was
\* acknowledged and notified, the other is still waiting
C2_Witness ==
    \E a, b \in 1..Len(hist) :
        /\ a # b
        /\ hist[a].key = hist[b].key
        /\ hist[a].acked /\ ~hist[b].acked
        /\ b \in Wids(waiting)
        /\ Len(notify[hist[a].notify]) = 1

\* C3: once the acknowledgement handler has removed a waiter, update never
\* resends it again, and a waiter acknowledged before its first due was
\* never resent at all.
C3_NoResendAfterAck ==
    /\ [](\A w \in 1..Len(hist) :
             /\ hist[w].acked => w \notin Wids(waiting)
             /\ (hist[w].acked /\ hist[w].early) => hist[w].resent = 0)
    /\ [][\A w \in 1..Len(hist) :
             hist[w].acked => /\ hist'[w] = hist[w]
                              /\ w \notin Wids(waiting')]_vars

\* C3 happens: a waiter was acknowledged before its first due, that due has
\* passed since, and update has resent another waiter
C3_Witness ==
    \E w, u \in 1..Len(hist) :
        /\ hist[w].acked /\ hist[w].early /\ hist[w].resent = 0
        /\ clock >= hist[w].first_due
        /\ hist[u].resent > 0

\* C4: a waiter leaves the vector, and a notify channel receives a message,
\* only in a step that routes an O1 record whose first parameter is the
\* waiter's key; a channel holds as many messages as waiters of it were
\* acknowledged.
C4_OnlyAckReleases ==
    /\ [](\A c \in Chans :
             Len(notify[c]) =
                Cardinality({w \in 1..Len(hist) : hist[w].acked /\ hist[w].notify = c}))
    /\ [][ (Removed # {} \/ notify' # notify)
           => /\ produced' # produced
              /\ IsAck(sched_cmd'.code)
              /\ \A w \in Removed : hist[w].key = AckKey(sched_cmd'.code)
              /\ \A c \in Chans :
                    notify'[c] # notify[c]
                    => \E w \in Removed :
                          /\ hist[w].notify = c
                          /\ notify'[c] = Append(notify[c], hist[w].key)
         ]_vars

\* C4 happens: update has resent a waiter, which is still in the vector,
\* and nothing was sent on its notify channel
C4_Witness ==
    \E i \in 1..Len(waiting) :
        /\ hist[waiting[i].wid].resent > 0
        /\ notify[waiting[i].notify] = <<>>
        /\ on_send # <<>>

\* the result of the acknowledgement handler on the last record routed
AckResult == invoked[1].ok

\* the last record routed was an O1 record
RoutedO1 ==
    /\ produced > 0
    /\ sched_cmd.code.letter = LetterO /\ sched_cmd.code.number = 1

\* C5 as stated: the acknowledgement handler returns true for every O1
\* record that has a first parameter, whatever its value, and false only for
\* a record without parameters.
C5_AcceptsEveryFirstParam ==
    RoutedO1 => (AckResult = (sched_cmd.code.params # <<>>))

\* C5, amended: the acknowledgement handler returns true exactly for the O1
\* records whose first parameter exists and has a value that converts to u8,
\* whether or not a waiter matches; then no later handler is invoked.
C5_AcceptsConvertibleFirstParam ==
    RoutedO1 =>
        /\ AckResult = (/\ sched_cmd.code.params # <<>>
                        /\ CastU8(Head(sched_cmd.code.params).value).ok)
        /\ code_ret = AckResult
        /\ AckResult => invoked = <<[h |-> 1, ok |-> TRUE]>>

\* C5 happens: an O1 record with a first parameter that matched no waiter
\* was accepted
C5_Witness ==
    /\ RoutedO1
    /\ IsAck(sched_cmd.code)
    /\ AckResult
    /\ \A w \in 1..Len(hist) : hist[w].key # AckKey(sched_cmd.code)
    /\ hist # <<>>

(***************************************************************************)
(* Properties of the link loop.                                            *)
(***************************************************************************)
RECURSIVE SumLen(_)
SumLen(ws) == IF ws = <<>> THEN 0 ELSE Head(ws).len + SumLen(Tail(ws))

\* the bytes written in the interval (t - 150 ms, t]
WrittenIn(t) ==
    SumLen(SelectSeq(writes, LAMBDA w : w.at > t - WindowMs /\ w.at <= t))

\* C6: at every instant t the bytes written to the port in the sliding
\* interval (t - 150 ms, t] are at most 60 (the sum is largest at the
\* instant of a write).
C6_SlidingBudget ==
    \A j \in 1..Len(writes) : WrittenIn(writes[j].at) <= BudgetBytes

\* C7: the bytes written to the port so far, followed by the pending buffer,
\* are the encodings of the records taken from the outbound channel so far,
\* in the order they were taken.
C7_WrittenThenPending ==
    port \o to_send = EncodeAll(dequeued)

\* C7 happens: a record was split, its first part is written within the
\* budget, the rest is pending behind it, and a later record was taken too
C7_Witness ==
    /\ Len(writes) >= 2
    /\ to_send # <<>>
    /\ Len(dequeued) >= 2
    /\ Len(port) > Len(Encode(dequeued[1]))
    /\ Len(port) < Len(EncodeAll(SubSeq(dequeued, 1, 2)))

(***************************************************************************)
(* Properties of the router.                                               *)
(***************************************************************************)
\* the rule of handler i matches the record: a letter or number that is
\* None is a wildcard
Matching(i, c) ==
    /\ callbacks[i].rule.letter.some => callbacks[i].rule.letter.v = c.letter
    /\ callbacks[i].rule.number.some => callbacks[i].rule.number.v = c.number

\* handler i accepts the record
Accepting(i, c) == c \in callbacks[i].acc

\* the handlers CodeHandler::code is to invoke: those matching the record
\* with no accepting matching handler before them
ToInvoke(c) ==
    {i \in 1..Len(callbacks) :
        /\ Matching(i, c)
        /\ \A j \in 1..(i - 1) : ~(Matching(j, c) /\ Accepting(j, c))}

\* C8: CodeHandler::code(c) invokes, in registration order, exactly the
\* handlers whose rule matches c up to and including the first that accepts,
\* returns true iff an invoked handler accepted, and otherwise has no effect
\* (a step that leaves the table as it is routes a record).
C8_DispatchPolicy ==
    [][ callbacks' = callbacks =>
        LET c == sched_cmd'.code
        IN  /\ {invoked'[k].h : k \in 1..Len(invoked')} = ToInvoke(c)
            /\ \A k \in 1..Len(invoked') :
                  /\ invoked'[k].ok = Accepting(invoked'[k].h, c)
                  /\ \A l \in 1..(k - 1) : invoked'[l].h < invoked'[k].h
            /\ code_ret' = (\E k \in 1..Len(invoked') : invoked'[k].ok)
            /\ code_ret' = (\E i \in 1..Len(callbacks) :
                               Matching(i, c) /\ Accepting(i, c))
            /\ waiting' = waiting /\ notify' = notify
            /\ sensors' = sensors /\ map' = map
      ]_vars

\* C8 happens: of three handlers the first does not match, the second
\* matches and refuses, the third matches and accepts
C8_Witness ==
    /\ produced > 0
    /\ Len(callbacks) = 3
    /\ ~Matching(1, sched_cmd.code)
    /\ Matching(2, sched_cmd.code) /\ ~Accepting(2, sched_cmd.code)
    /\ invoked = <<[h |-> 2, ok |-> FALSE], [h |-> 3, ok |-> TRUE]>>
    /\ code_ret

(***************************************************************************)
(* Properties of the catalogue.                                            *)
(***************************************************************************)
\* C9: a sensor, once created, stays in the catalogue with the name, the
\* unit and the id it was created with (put changes only its value and
\* last_update), so the number of sensors never decreases.
C9_NameUnitFixed ==
    [][ /\ \A i \in DOMAIN sensors :
              /\ i \in DOMAIN sensors'
              /\ sensors'[i].name = sensors[i].name
              /\ sensors'[i].unit = sensors[i].unit
              /\ sensors'[i].id = sensors[i].id
              /\ sensors'[i].auto = sensors[i].auto
        /\ Cardinality(DOMAIN sensors') >= Cardinality(DOMAIN sensors)
      ]_vars

\* C9 happens: put has updated a sensor from a record that carries a name
\* other than the sensor's
C9_Witness ==
    /\ produced > 0
    /\ put_ret
    /\ sched_cmd.code.number \in DOMAIN sensors
    /\ Find(sched_cmd.code.params, LetterN).some
    /\ Utf8Lossy(Find(sched_cmd.code.params, LetterN).v.b)
          # sensors[sched_cmd.code.number].name
    /\ sensors[sched_cmd.code.number].last_update > 0

\* C10: the index is consistent with the store: every entry name -> id of
\* map refers to a sensor that exists and has that name, and get(s.name)
\* returns s for every sensor s of the catalogue.
C10_IndexConsistent ==
    /\ \A name \in DOMAIN map :
          /\ map[name] \in DOMAIN sensors
          /\ sensors[map[name]].name = name
    /\ \A id \in DOMAIN sensors :
          get(sensors, map, sensors[id].name) = Some(sensors[id])

\* the record carries a usable V: a float, or bytes that are a decimal
UsableV(code) ==
    LET value == Find(code.params, LetterV)
    IN  /\ value.some
        /\ \/ value.v.t = "float"
           \/ value.v.t = "bytes" /\ ParseF32(value.v.b).some

\* the float that V carries
FloatOfV(code) ==
    LET value == Find(code.params, LetterV).v
    IN  IF value.t = "float" THEN value.v ELSE ParseF32(value.b).v

\* C11: put on an S{id} record with a usable V returns true and installs
\* the value: an existing sensor gets the value and last_update = now and
\* nothing else changes; a new id with N and U present becomes the sensor
\* {id, name N, unit U, value V, auto false} and name -> id is added to
\* the index.  On an empty catalogue S1 [N=temperature, U=C, V=20.5] gives
\* the catalogue of exactly sensor 1, which get("temperature") returns.
\* (A step that leaves the clock as it is is a put.)
C11_PutInstalls ==
    [][ (clock' = clock /\ sched_cmd'.code.letter = LetterS /\ UsableV(sched_cmd'.code))
        => LET code == sched_cmd'.code
               id == code.number
               v == FloatOfV(code)
               n == Find(code.params, LetterN)
               u == Find(code.params, LetterU)
           IN  /\ id \in DOMAIN sensors =>
                     /\ put_ret'
                     /\ sensors' = [sensors EXCEPT ![id].value = v,
                                                   ![id].last_update = clock]
                     /\ map' = map
               /\ (id \notin DOMAIN sensors /\ n.some /\ u.some) =>
                     /\ put_ret'
                     /\ DOMAIN sensors' = DOMAIN sensors \cup {id}
                     /\ \A j \in DOMAIN sensors : sensors'[j] = sensors[j]
                     /\ sensors'[id] = [name |-> Utf8Lossy(n.v.b),
                                        unit |-> Utf8Lossy(u.v.b), id |-> id,
                                        value |-> v, last_update |-> clock,
                                        auto |-> FALSE]
                     /\ DOMAIN map' = DOMAIN map \cup {sensors'[id].name}
                     /\ map'[sensors'[id].name] = id
                     /\ \A x \in DOMAIN map \ {sensors'[id].name} : map'[x] = map[x]
               /\ (sensors = EmptyMap /\ code = TemperatureCode) =>
                     /\ DOMAIN sensors' = {1}
                     /\ sensors'[1].name = Temperature
                     /\ sensors'[1].unit = <<67>>
                     /\ sensors'[1].value = 205
                     /\ get(sensors', map', Temperature) = Some(sensors'[1])
      ]_vars

\* C11 happens: S1 [N=temperature, U=C, V=20.5] was put and the catalogue
\* holds exactly sensor 1, found by its name
C11_Witness ==
    /\ sched_cmd.code = TemperatureCode
    /\ put_ret
    /\ DOMAIN sensors = {1}
    /\ sensors[1].value = 205
    /\ get(sensors, map, Temperature) = Some(sensors[1])

(***************************************************************************)
(* Properties of the scheduler's timers.                                   *)
(***************************************************************************)
\* the step handles a "rapid-weather" request (main.rs 207-211)
RapidStep ==
    /\ sched_pc = "recv" /\ sched_pc' = "top"
    /\ rx # <<>>
    /\ Head(rx) = RequestEvent("rapid-weather")

\* the step is a maturation pass (main.rs 146-162, 165-182)
MatureStep == sched_pc = "mature" /\ sched_pc' = "top"

\* the update requests a maturation pass sends
Emitted == SubSeq(update', Len(update) + 1, Len(update'))

\* the number of requests with flag b in a sequence of update requests
CountFlag(us, b) == Cardinality({k \in 1..Len(us) : us[k] = b})

\* C12: a "rapid-weather" request sets rapid, rapid_due = now + 60 s and
\* rapid_update_due = now; while rapid holds the scheduler never waits in
\* recv_timeout beyond rapid_update_due, so no time passes before the pass
\* that follows the request; every pass at which rapid_update_due has
\* matured sends one rapid update request and moves rapid_update_due
\* 2500 ms ahead.
C12_RapidStarts ==
    /\ []((rapid /\ sched_pc = "recv") => timeout <= rapid_update_due)
    /\ [](rapid => clock < rapid_update_due + TimerTick)
    /\ [][RapidStep => /\ rapid'
                       /\ rapid_due' = clock + RapidPeriod
                       /\ rapid_update_due' = clock]_vars
    /\ [][(MatureStep /\ rapid /\ rapid_update_due <= sched_now)
          => /\ CountFlag(Emitted, TRUE) = 1
             /\ rapid_update_due' = clock + RapidUpdateEvery]_vars

\* C12 happens: after a request at t0 rapid updates were sent at t0 and at
\* t0 + 2500 ms, and the third is due at t0 + 5000 ms
C12_Witness ==
    /\ rapid
    /\ rapid_update_due = (rapid_due - RapidPeriod) + 2 * RapidUpdateEvery
    /\ clock = rapid_update_due
    /\ update # <<>> /\ update[Len(update)] = TRUE

\* C13: rapid is turned on only by a request and cleared only by a
\* maturation pass at or after rapid_due, and by the first such pass (the
\* scheduler never waits beyond rapid_due while rapid holds); a rapid
\* update request is sent only by a pass that starts with rapid = true; a
\* request received while rapid holds moves rapid_due to now + 60 s.
C13_RapidBounded ==
    /\ []((rapid /\ sched_pc = "recv") => timeout <= rapid_due)
    /\ [](rapid => clock < rapid_due + TimerTick)
    /\ [][(MatureStep /\ rapid /\ rapid_due <= sched_now) => ~rapid']_vars
    /\ [][(rapid /\ ~rapid') => (MatureStep /\ rapid_due <= sched_now)]_vars
    /\ [][(~rapid /\ rapid') => RapidStep]_vars
    /\ [][(MatureStep /\ CountFlag(Emitted, TRUE) > 0) => rapid]_vars
    /\ [][(update' # update /\ ~MatureStep) => update' = Tail(update)]_vars
    /\ [][(RapidStep /\ rapid) => rapid_due' = clock + RapidPeriod]_vars

\* C13 happens: rapid was on and has been cleared at rapid_due, and the
\* normal update after it was sent
C13_Witness ==
    /\ ~rapid
    /\ rapid_due >= RapidPeriod
    /\ clock >= rapid_due
    /\ update_due >= 2 * UpdatePeriod
    /\ sched_pc = "recv"

\* C14: the scheduler never waits in recv_timeout beyond update_due; every
\* maturation pass at which update_due has matured sends exactly one normal
\* update request and moves update_due to now + 60 s, whatever rapid is;
\* nothing else sends a normal request or moves update_due, so two normal
\* requests are at least 60 s apart.
C14_NormalUpdates ==
    /\ [](sched_pc = "recv" => timeout <= update_due)
    /\ [](clock < update_due + TimerTick)
    /\ [][(MatureStep /\ update_due <= sched_now)
          => /\ CountFlag(Emitted, FALSE) = 1
             /\ update_due' = clock + UpdatePeriod]_vars
    /\ [][(MatureStep /\ CountFlag(Emitted, FALSE) > 0)
          => /\ update_due <= clock
             /\ update_due' >= update_due + UpdatePeriod]_vars
    /\ [][update_due' # update_due
          => (MatureStep /\ CountFlag(Emitted, FALSE) = 1)]_vars

\* C14 happens: the second normal update request was sent, 60 s after the
\* first, while rapid was on
C14_Witness ==
    /\ rapid
    /\ update_due >= 2 * UpdatePeriod
    /\ update # <<>> /\ update[1] = FALSE

(***************************************************************************)
(* Properties of the boot sequence and the publisher loop.                 *)
(***************************************************************************)
\* the main thread is in the publisher loop (main.rs 238-289)
InLoop ==
    \/ caller_pc \in {"pub_recv", "gu_lock", "gu_iter", "gu_wait", "publish"}
    \/ caller_pc \in {"cg_send", "cg_push"} /\ caller_ret = "gu_iter"

\* the notifications the two rx.recv() of the boot have taken (main.rs 226-227)
BootTaken ==
    IF InLoop THEN 2 ELSE IF caller_pc = "boot_recv2" THEN 1 ELSE 0

\* the waiters of channel ch the ack handler has removed
AckedOn(ch) ==
    Cardinality({i \in 1..Len(hist) : hist[i].notify = ch /\ hist[i].acked})

\* C15: set-clock is queued with no waiter; the main thread is in the
\* publisher loop only when the ack handler has removed both the waiter of
\* M1 and the waiter of M102; every notification of the boot channel stands
\* for a different waiter removed, so a second acknowledgement of the same
\* command releases nothing.
C15_BootOrdering ==
    /\ [](InLoop => /\ Len(hist) >= 2
                    /\ hist[1].key = <<LetterM, 1>> /\ hist[1].acked
                    /\ hist[2].key = <<LetterM, 102>> /\ hist[2].acked)
    /\ [](BootTaken + Len(notify[1]) = AckedOn(1))
    /\ [](\A i \in 1..Len(waiting) : waiting[i].code # set_clock_code)
    /\ [][(caller_pc = "boot_clock" /\ caller_pc' # "boot_clock")
          => /\ on_send' = Append(on_send, set_clock_code)
             /\ waiting' = waiting /\ hist' = hist]_vars

\* C15 happens: M1 was acknowledged and its data arrived, a second
\* acknowledgement of M1 has just been handled, M102 is not acknowledged
\* and the main thread is still in its second rx.recv()
C15_Witness ==
    /\ caller_pc = "boot_recv2"
    /\ sched_cmd = CodeEvent(Ack(LetterM, IntVal(1)))
    /\ sched_pc = "top"
    /\ 3 \in DOMAIN sensors
    /\ hist[1].acked /\ ~hist[2].acked
    /\ notify[1] = <<>>


\* the round of the publisher loop the main thread is in
Round == Len(published) + 1

\* the waiters registered so far for sensor id
Registered(id) ==
    Cardinality({i \in 1..Len(hist) : hist[i].key = <<LetterS, id>>})

\* C16: when get_updates has left its first loop it has registered exactly
\* one waiter S{id}, with R = "V" and a retry of 1 s, for each sensor of the
\* catalogue; it still has as many receives to do as there are waiters left
\* or notifications unread; the snapshot is taken and the update published
\* only when every waiter was removed by the ack handler; with an empty
\* catalogue nothing is registered and nothing is waited for.
C16_FanIn ==
    /\ [](caller_pc \in {"gu_wait", "publish"}
          => /\ \A id \in DOMAIN sensors : Registered(id) = Round
             /\ Len(hist) = Round * Cardinality(DOMAIN sensors))
    /\ [](\A i \in 1..Len(waiting) :
             /\ waiting[i].key[2] \in DOMAIN sensors
             /\ waiting[i].code = request_sensor_code(waiting[i].key[2], TRUE)
             /\ waiting[i].code.params = <<Param(LetterR, BytesVal(<<LetterV>>))>>
             /\ waiting[i].retry = RetrySecs)
    /\ [](caller_pc = "gu_wait" => gu_count = Len(notify[2]) + Len(waiting))
    /\ [](caller_pc = "publish"
          => /\ waiting = <<>>
             /\ \A i \in 1..Len(hist) : hist[i].acked)
    /\ [][published' # published
          => \A i \in 1..Len(hist) : hist[i].acked]_vars
    /\ []((caller_pc = "gu_wait" /\ DOMAIN sensors = {})
          => (gu_count = 0 /\ hist = <<>>))

\* C16 happens: with two sensors in the catalogue an update was published
\* after both requests were acknowledged, one of them after a resend
C16_Witness ==
    /\ Cardinality(DOMAIN sensors) = 2
    /\ published # <<>>
    /\ Len(hist) = 2
    /\ \E i \in 1..Len(hist) : hist[i].resent > 0

\* the main thread is blocked in a channel receive (main.rs 226-227, 239, 43)
MainReceiving == caller_pc \in {"boot_recv1", "boot_recv2", "pub_recv", "gu_wait"}

\* the main thread is in mqtt.publish_update (main.rs 288)
MainPublishing == caller_pc = "publish"

\* C17: the main thread holds neither the catalogue mutex nor the `waiting`
\* mutex while it is blocked in a channel receive or while it publishes.
C17_NoIOUnderLock ==
    /\ MainReceiving => (sensors_lock = "free" /\ waiting_lock = "free")
    /\ MainPublishing => (sensors_lock = "free" /\ waiting_lock = "free")

\* C18: once the link loop has failed the process ends.
C18_LinkErrorFatal == (link_pc = "dead") ~> (caller_pc = "exited")

(***************************************************************************)
(* Properties of the auto-mode records.                                    *)
(***************************************************************************)
\* bit n of the integer x
Bit(x, n) == (x \div (2 ^ n)) % 2

\* x | (1 << n) and x & ~(1 << n)
SetBit(x, n) == IF Bit(x, n) = 1 THEN x ELSE x + 2 ^ n
ClearBit(x, n) == IF Bit(x, n) = 1 THEN x - 2 ^ n ELSE x

\* the bitset as an integer after the parameters ps, from x
RECURSIVE FoldBits(_, _)
FoldBits(x, ps) ==
    IF ps = <<>> THEN x
    ELSE LET p == Head(ps)
             y == IF p.letter = 69 THEN SetBit(x, p.value.v)
                  ELSE IF p.letter = 68 THEN ClearBit(x, p.value.v)
                  ELSE p.value.v
         IN  FoldBits(y, Tail(ps))

\* the M102 record [V=15, E=5, D=1]
AutosExample ==
    Code(LetterM, 102, <<Param(LetterV, IntVal(15)), Param(69, IntVal(5)),
                         Param(68, IntVal(1))>>)

\* C19: after an M102 record was routed every sensor's auto flag is bit id
\* of the bitset folded from 0 over the record's parameters in order; with
\* the parameters V=x, E=a, D=b it is bit id of (x | (1<<a)) & ~(1<<b); with
\* V=15, E=5, D=1 the sensors 0..5 have the flags 1, 0, 1, 1, 0, 1.
C19_AutosFold ==
    (sched_cmd.type = "Code" /\ sched_cmd.code.number = 102) =>
        LET ps == sched_cmd.code.params
        IN  /\ \A id \in DOMAIN sensors :
                  sensors[id].auto = (Bit(FoldBits(0, ps), id) = 1)
            /\ (/\ Len(ps) = 3
                /\ ps[1].letter = LetterV /\ ps[2].letter = 69
                /\ ps[3].letter = 68)
               => \A id \in DOMAIN sensors :
                     sensors[id].auto =
                        (Bit(ClearBit(SetBit(ps[1].value.v, ps[2].value.v),
                                      ps[3].value.v), id) = 1)
            /\ sched_cmd.code = AutosExample
               => \A id \in DOMAIN sensors :
                     sensors[id].auto = (id \in {0, 2, 3, 5})

\* C19 happens: [V=15, E=5, D=1] was routed with the sensors 0..5 in the
\* catalogue
C19_Witness ==
    /\ sched_cmd = CodeEvent(AutosExample)
    /\ DOMAIN sensors = 0..5
    /\ sensors[5].auto /\ ~sensors[1].auto /\ ~sensors[4].auto

\* C20: the waiter vector never holds two waiters with the same key
C20_OneWaiterPerKey ==
    \A i, j \in 1..Len(waiting) : i # j => waiting[i].key # waiting[j].key

\* C20 happens: a key acknowledged in an earlier round is registered again
\* and is waiting
C20_Witness ==
    \E i, j \in 1..Len(hist) :
        /\ i < j
        /\ hist[i].key = hist[j].key
        /\ hist[i].acked
        /\ \E k \in 1..Len(waiting) : waiting[k].wid = j

(***************************************************************************)
(* Properties of update and earliest_due.                                  *)
(***************************************************************************)
\* the step is a call of update that resends a waiter
TickStep == \E w \in 1..Len(hist) : hist'[w].resent # hist[w].resent

\* C21: a call of update at time now appends to the outgoing queue the code
\* of every waiter with due <= now, once each in vector order, and sets the
\* due of these waiters to now + retry; the other waiters are unchanged, no
\* waiter is added or removed and nothing else receives a message;
\* afterwards earliest_due() is later than now.
C21_TickResendsDue ==
    [][TickStep =>
        /\ Len(waiting') = Len(waiting)
        /\ \A i \in 1..Len(waiting) :
              IF waiting[i].due <= clock
              THEN waiting'[i] = [waiting[i] EXCEPT !.due = clock + waiting[i].retry]
              ELSE waiting'[i] = waiting[i]
        /\ on_send' = on_send \o
              Codes(SelectSeq(waiting, LAMBDA wt : wt.due <= clock))
        /\ \A w \in 1..Len(hist) :
              hist'[w].resent =
                 hist[w].resent +
                    (IF \E i \in 1..Len(waiting) :
                           waiting[i].wid = w /\ waiting[i].due <= clock
                     THEN 1 ELSE 0)
        /\ notify' = notify
        /\ earliest_due(waiting').some /\ earliest_due(waiting').v > clock
      ]_vars

\* C21 happens: of two waiters update has resent the one that was due and
\* left alone the one that was not
C21_Witness ==
    /\ Len(waiting) = 2
    /\ \E i, j \in 1..2 :
          /\ hist[waiting[i].wid].resent = 1
          /\ hist[waiting[j].wid].resent = 0
          /\ waiting[i].due = clock + waiting[i].retry
          /\ waiting[j].due > clock
    /\ on_send # <<>>

(***************************************************************************)
(* Properties of the result of Sensors::put.                               *)
(***************************************************************************)
\* the record carries a V that converts to f32: a number, or text that
\* parses as one (sensor.rs 61-68)
ConvertsV(code) ==
    LET value == Find(code.params, LetterV)
    IN  /\ value.some
        /\ \/ value.v.t \in {"float", "int"}
           \/ value.v.t = "bytes" /\ ParseF32(value.v.b).some

\* the cases in which put refuses the record
Refused(code) ==
    \/ code.letter # LetterS
    \/ ~ConvertsV(code)
    \/ /\ code.number \notin DOMAIN sensors
       /\ ~(Find(code.params, LetterN).some /\ Find(code.params, LetterU).some)

\* the record S1 [N=a, V=21.5], which has no unit
NoUnitCode ==
    Code(LetterS, 1, <<Param(LetterN, BytesVal(<<97>>)),
                       Param(LetterV, BytesVal(<<50, 49, 46, 53>>))>>)

\* C22: put returns false exactly for a record whose letter is not S, whose
\* V is missing or does not convert, or whose id is unknown while N or U is
\* missing, and then both maps of the catalogue are as they were; when it
\* returns true the sensor of the record's id holds last_update = now.
\* (A step that leaves the clock as it is is a put.)
C22_PutResult ==
    [][ clock' = clock
        => LET code == sched_cmd'.code
           IN  /\ put_ret' = ~Refused(code)
               /\ ~put_ret' => (sensors' = sensors /\ map' = map)
               /\ put_ret' => /\ code.number \in DOMAIN sensors'
                              /\ sensors'[code.number].last_update = clock
                              /\ \A j \in DOMAIN sensors' \ {code.number} :
                                    j \in DOMAIN sensors /\ sensors'[j] = sensors[j]
      ]_vars

\* C22 happens: with sensor 2 in the catalogue, the record S1 [N=a, V=21.5]
\* was refused for its missing unit and nothing was installed
C22_Witness ==
    /\ sched_cmd = CodeEvent(NoUnitCode)
    /\ ~put_ret
    /\ DOMAIN sensors = {2}
    /\ <<97>> \notin DOMAIN map

(***************************************************************************)
(* Properties of the order of the publications.                            *)
(***************************************************************************)
\* the request the publisher has taken and not yet published
Taken == IF caller_pc = "pub_recv" THEN <<>> ELSE <<pub_rapid>>

\* the topics a sequence of request flags asks for
RequestedTopics(flags) ==
    [i \in 1..Len(flags) |->
        IF flags[i] THEN <<"station", "rapid-weather", StationId>>
                    ELSE <<"station", "weather", StationId>>]

\* the publications made, then the one in progress, then the ones requested
\* and not yet taken: one topic for every request emitted so far
PublicationLine == published \o RequestedTopics(Taken \o update)

\* C23: the topics published, followed by the topics of the request in
\* progress and of the requests still in the update channel, are at all times
\* the topics of the requests the scheduler emitted, in the order of
\* emission: a step either leaves this line as it is (the publisher took the
\* oldest request, or published the one it had taken) or the scheduler
\* emitted requests, which go to its end.  So the k-th publication answers the
\* k-th request, on /station/rapid-weather/{id} for true and
\* /station/weather/{id} for false, with none skipped, merged or repeated.
C23_PublishedInOrder ==
    [][ /\ Len(PublicationLine') >= Len(PublicationLine)
        /\ SubSeq(PublicationLine', 1, Len(PublicationLine)) = PublicationLine
        /\ PublicationLine' # PublicationLine =>
              sched_pc' = "top" /\ Len(update') > Len(update)
        /\ update' # update =>
              \/ caller_pc = "pub_recv" /\ caller_pc' = "gu_lock"
                   /\ pub_rapid' = Head(update) /\ update' = Tail(update)
              \/ sched_pc' = "top" /\ Len(update') > Len(update)
                   /\ SubSeq(update', 1, Len(update)) = update
        /\ published' # published =>
              /\ caller_pc = "publish" /\ caller_pc' = "pub_recv"
              /\ Len(published') = Len(published) + 1
      ]_vars

\* C23 happens: a normal request and then a rapid one were both published,
\* in that order
C23_Witness ==
    /\ published = <<<<"station", "weather", StationId>>,
                     <<"station", "rapid-weather", StationId>>>>
    /\ update = <<>>
    /\ caller_pc = "pub_recv"

(***************************************************************************)
(* The link loop (station.rs 84-131) with traffic in both directions: the *)
(* port may have bytes to read at any read, records are enqueued at any    *)
(* time, and the scheduler takes what the loop decodes.  The loop is fair: *)
(* it goes on whenever it can, and time passes while it is blocked with    *)
(* bytes pending.                                                          *)
(***************************************************************************)
\* what the decoder makes of the bytes of one read
Decoded == {CodeEvent(Ack(LetterM, IntVal(1))), CodeErrEvent}

\* let len = self.uart.read(&mut buf)? returns bytes: they are decoded, the
\* result is sent to the scheduler and the loop reads again, the outbound
\* channel and the pending buffer left alone (station.rs 90-91, 118-129)
LinkReadBytes ==
    /\ link_pc = "read"
    /\ Len(rx) < MaxRx
    /\ \E e \in Decoded : rx' = Append(rx, e)
    /\ UNCHANGED <<clock, cmdVars, callerVars, timerVars, schedVars, update,
                   routerVars, sensorVars, linkVars, histVars>>

\* rx.recv_timeout (main.rs 164): the scheduler takes an event
RxTake ==
    /\ rx # <<>>
    /\ rx' = Tail(rx)
    /\ UNCHANGED <<clock, cmdVars, callerVars, timerVars, schedVars, update,
                   routerVars, sensorVars, linkVars, histVars>>

\* time passes while the loop is blocked in recv_timeout with bytes pending
LinkInAdvance ==
    /\ link_pc = "wait"
    /\ on_send = <<>>
    /\ to_send # <<>>
    /\ clock < link_deadline
    /\ clock + LinkTick <= MaxInClock
    /\ clock' = clock + LinkTick
    /\ UNCHANGED <<cmdVars, callerVars, timerVars, schedVars, rx, update,
                   routerVars, sensorVars, linkVars, histVars>>

\* an iteration step of the loop
LinkLoop == LinkRead \/ LinkReadBytes \/ LinkRecv \/ LinkRecvTimeout \/ LinkPace

NextLinkIn ==
    \/ Enqueue \/ LinkRead \/ LinkReadBytes \/ LinkRecv \/ LinkRecvTimeout
    \/ LinkPace \/ LinkInAdvance \/ RxTake

SpecLinkIn ==
    InitCmdOnly /\ [][NextLinkIn]_vars /\ WF_vars(LinkLoop) /\ WF_vars(LinkInAdvance)

\* C24: whenever a record is in the outbound channel or bytes are pending,
\* the loop eventually has taken every record and written every pending byte
C24_LinkProgress ==
    (on_send # <<>> \/ to_send # <<>>) ~> (on_send = <<>> /\ to_send = <<>>)

(***************************************************************************)
(* The mutexes: the catalogue (Arc<Mutex<Sensors>>, main.rs 112), and      *)
(* `waiting` and `tx` of the command manager (station.rs 172-173).  Every  *)
(* lock() and every drop of a guard is a step of its thread; what the      *)
(* threads do between them is left out, a receive returns at any time and  *)
(* a loop goes round any number of times.  The link loop and the broker    *)
(* listener take no mutex.                                                 *)
(***************************************************************************)
Mutexes == {"catalogue", "waiting", "tx"}

Holder(m) ==
    IF m = "catalogue" THEN sensors_lock
    ELSE IF m = "waiting" THEN waiting_lock ELSE tx_lock

\* the steps of a thread: m.lock() and then next, the guard of m dropped and
\* then next, or anything else and then next
Lock(m, next)   == [op |-> "lock", m |-> m, next |-> next]
Unlock(m, next) == [op |-> "unlock", m |-> m, next |-> next]
Go(next)        == [op |-> "go", m |-> "none", next |-> next]

\* command (station.rs 205-207): tx is locked for the send
CommandLocks(a, b, next) ==
    (a :> {Lock("tx", b)}) @@ (b :> {Unlock("tx", next)})

\* command_guarentee locking tx before waiting
GuaranteeLocks_TxFirst(a, b, c, d, next) ==
    (a :> {Lock("tx", b)}) @@ (b :> {Lock("waiting", c)})
        @@ (c :> {Unlock("tx", d)}) @@ (d :> {Unlock("waiting", next)})

\* command_guarentee (station.rs 209-219): waiting is locked, tx is locked
\* for the send inside, and waiting is released after the push
GuaranteeLocks(a, b, c, d, next) ==
    (a :> {Lock("waiting", b)}) @@ (b :> {Lock("tx", c)})
        @@ (c :> {Unlock("tx", d)}) @@ (d :> {Unlock("waiting", next)})

\* update (station.rs 221-229): waiting is locked, and tx is locked for the
\* send of every waiter that is due
UpdateLocks(a, b, c, next) ==
    (a :> {Lock("waiting", b)})
        @@ (b :> {Lock("tx", c), Unlock("waiting", next)})
        @@ (c :> {Unlock("tx", b)})

\* earliest_due (station.rs 231-233)
EarliestDueLocks(a, b, next) ==
    (a :> {Lock("waiting", b)}) @@ (b :> {Unlock("waiting", next)})

\* the acknowledgement handler (station.rs 186-202)
AckLocks(a, b, next) ==
    (a :> {Lock("waiting", b)}) @@ (b :> {Unlock("waiting", next)})

\* the sensor and autos handlers: the catalogue is locked for the ingest
IngestLocks(a, b, next) ==
    (a :> {Lock("catalogue", b)}) @@ (b :> {Unlock("catalogue", next)})

\* the main thread: the boot (main.rs 219-227), then the publisher loop
\* (main.rs 238-289) with get_updates (main.rs 33-46)
MainProgram ==
    CommandLocks("boot_clock", "cmd_send", "boot_sensors")
    @@ GuaranteeLocks("boot_sensors", "bs_tx", "bs_send", "bs_push", "boot_autos")
    @@ GuaranteeLocks("boot_autos", "ba_tx", "ba_send", "ba_push", "boot_recv")
    @@ ("boot_recv" :> {Go("pub_recv")})
    @@ ("pub_recv" :> {Go("gu_lock")})
    @@ ("gu_lock" :> {Lock("catalogue", "gu_iter")})
    @@ ("gu_iter" :> {Go("cg_lock"), Unlock("catalogue", "gu_wait")})
    @@ GuaranteeLocks("cg_lock", "cg_tx", "cg_send", "cg_push", "gu_iter")
    @@ ("gu_wait" :> {Go("snapshot")})
    @@ ("snapshot" :> {Lock("catalogue", "publish")})
    @@ ("publish" :> {Unlock("catalogue", "pub_recv")})

\* the scheduler thread (main.rs 128-215): earliest_due twice, then a pass
\* of the timers with or without update, or an event: an acknowledgement, a
\* sensor or autos record, or anything else
SchedProgram ==
    EarliestDueLocks("top", "due", "again")
    @@ EarliestDueLocks("again", "due_again", "choose")
    @@ ("choose" :> {Go("upd_lock"), Go("ack_lock"), Go("ingest_lock"), Go("top")})
    @@ UpdateLocks("upd_lock", "upd_iter", "upd_send", "top")
    @@ AckLocks("ack_lock", "ack", "top")
    @@ IngestLocks("ingest_lock", "ingest", "top")

\* the holders after thread t took (or, with t = "free", released) mutex m
SetHolder(m, t) ==
    /\ sensors_lock' = IF m = "catalogue" THEN t ELSE sensors_lock
    /\ waiting_lock' = IF m = "waiting" THEN t ELSE waiting_lock
    /\ tx_lock' = IF m = "tx" THEN t ELSE tx_lock

\* a step of the main thread that takes or releases no mutex
MainGo ==
    /\ \E ins \in MainProgram[caller_pc] :
          /\ ins.op = "go"
          /\ caller_pc' = ins.next
    /\ UNCHANGED <<clock, cmdVars, callVars, mainVars, timerVars, schedVars, rx,
                   update, routerVars, sensorVars, linkVars, histVars>>

\* m.lock() returns in the main thread: the mutex was free
MainAcquire ==
    /\ \E ins \in MainProgram[caller_pc] :
          /\ ins.op = "lock"
          /\ Holder(ins.m) = "free"
          /\ SetHolder(ins.m, "main")
          /\ caller_pc' = ins.next
    /\ UNCHANGED <<clock, waiting, on_send, notify, callVars, mainVars,
                   timerVars, schedVars, rx, update, routerVars, sensors, map,
                   put_ret, linkVars, histVars>>

\* the main thread drops a guard
MainRelease ==
    /\ \E ins \in MainProgram[caller_pc] :
          /\ ins.op = "unlock"
          /\ SetHolder(ins.m, "free")
          /\ caller_pc' = ins.next
    /\ UNCHANGED <<clock, waiting, on_send, notify, callVars, mainVars,
                   timerVars, schedVars, rx, update, routerVars, sensors, map,
                   put_ret, linkVars, histVars>>

\* a step of the scheduler thread that takes or releases no mutex
SchedGo ==
    /\ \E ins \in SchedProgram[sched_pc] :
          /\ ins.op = "go"
          /\ sched_pc' = ins.next
    /\ UNCHANGED <<clock, cmdVars, callerVars, timerVars, cmd_due, timeout,
                   sched_now, sched_cmd, rx, update, routerVars, sensorVars,
                   linkVars, histVars>>

\* m.lock() returns in the scheduler thread: the mutex was free
SchedAcquire ==
    /\ \E ins \in SchedProgram[sched_pc] :
          /\ ins.op = "lock"
          /\ Holder(ins.m) = "free"
          /\ SetHolder(ins.m, "sched")
          /\ sched_pc' = ins.next
    /\ UNCHANGED <<clock, waiting, on_send, notify, callerVars, timerVars,
                   cmd_due, timeout, sched_now, sched_cmd, rx, update,
                   routerVars, sensors, map, put_ret, linkVars, histVars>>

\* the scheduler thread drops a guard
SchedRelease ==
    /\ \E ins \in SchedProgram[sched_pc] :
          /\ ins.op = "unlock"
          /\ SetHolder(ins.m, "free")
          /\ sched_pc' = ins.next
    /\ UNCHANGED <<clock, waiting, on_send, notify, callerVars, timerVars,
                   cmd_due, timeout, sched_now, sched_cmd, rx, update,
                   routerVars, sensors, map, put_ret, linkVars, histVars>>

NextLocks ==
    \/ MainGo \/ MainAcquire \/ MainRelease
    \/ SchedGo \/ SchedAcquire \/ SchedRelease

SpecLocks == Init /\ [][NextLocks]_vars

\* the place of a mutex in the order catalogue, waiting, tx
Rank(m) == IF m = "catalogue" THEN 1 ELSE IF m = "waiting" THEN 2 ELSE 3

\* the mutexes a thread holds, and the one it is about to lock
Holds(t) == {m \in Mutexes : Holder(m) = t}
Wants(prog, pc) == {ins.m : ins \in {i \in prog[pc] : i.op = "lock"}}

\* C25: a thread that is about to lock a mutex holds only mutexes that come
\* before it in the order catalogue, waiting, tx, and the main thread and the
\* scheduler thread are never each waiting for a mutex the other one holds.
C25_LockOrder ==
    /\ \A m \in Wants(MainProgram, caller_pc) :
          \A h \in Holds("main") : Rank(h) < Rank(m)
    /\ \A m \in Wants(SchedProgram, sched_pc) :
          \A h \in Holds("sched") : Rank(h) < Rank(m)
    /\ ~ \E m \in Wants(MainProgram, caller_pc), n \in Wants(SchedProgram, sched_pc) :
            Holder(m) = "sched" /\ Holder(n) = "main"

\* C25 happens: get_updates holds the catalogue and waits for `waiting`,
\* which update holds in the scheduler together with tx
C25_Witness ==
    /\ caller_pc = "cg_lock" /\ Holds("main") = {"catalogue"}
    /\ sched_pc = "upd_send" /\ Holds("sched") = {"waiting", "tx"}

(***************************************************************************)
(* Properties of the registration of a waiter.                             *)
(***************************************************************************)
\* the main thread is inside command_guarentee, between the lock and the
\* drop of the guard (station.rs 210-219)
Registering == caller_pc \in {"cg_send", "cg_push"}

\* the scheduler hands an acknowledgement to the router in this step
AckStep ==
    /\ sched_pc = "recv" /\ sched_pc' = "top"
    /\ rx # <<>> /\ rx' = Tail(rx)
    /\ Head(rx).type = "Code"
    /\ Head(rx).code.letter = LetterO /\ Head(rx).code.number = 1

\* C26: command_guarentee holds `waiting` from before the send until after
\* the push; the acknowledgement handler never runs in between, its step
\* finding the mutex free and every command sent already registered; and a
\* waiter registered stays in the vector until it is acknowledged.
C26_AtomicRegistration ==
    /\ [](Registering => waiting_lock = "main")
    /\ [](\A w \in 1..Len(hist) : hist[w].acked \/ w \in Wids(waiting))
    /\ [][AckStep => (~Registering /\ waiting_lock = "free")]_vars
    /\ [][(caller_pc = "cg_send" /\ caller_pc' = "cg_push")
            => (on_send' = Append(on_send, caller_code) /\ waiting' = waiting)]_vars
    /\ [][(caller_pc = "cg_push" /\ caller_pc' # "cg_push")
            => (/\ Len(waiting') = Len(waiting) + 1
                /\ waiting'[Len(waiting')].code = caller_code
                /\ waiting_lock' = "free")]_vars

\* C26 happens: the acknowledgement of the command being registered is
\* already at the head of the event channel, the scheduler is in its
\* receive, and the waiter is not pushed yet
C26_Witness ==
    /\ caller_pc = "cg_push"
    /\ sched_pc = "recv"
    /\ rx # <<>>
    /\ Head(rx) = CodeEvent(Ack(caller_code.letter, IntVal(caller_code.number)))
    /\ \A i \in 1..Len(waiting) :
          waiting[i].key # <<caller_code.letter, caller_code.number>>

(***************************************************************************)
(* Properties of the notify channels.                                      *)
(***************************************************************************)
\* the main thread is inside get_updates, whose rx lives from main.rs 34 to
\* the return at main.rs 45
InGetUpdates ==
    \/ caller_pc \in {"gu_iter", "gu_wait"}
    \/ caller_pc \in {"cg_send", "cg_push"} /\ caller_chan = 2

\* the receiving end of a notify channel exists: the one of the boot
\* (main.rs 217) lives as long as main, the one of a round as long as the
\* call of get_updates
ReceiverAlive(ch) == ch = 1 \/ (ch = 2 /\ InGetUpdates)

\* C27: the receiving end of the notify channel of every waiter in the
\* vector is alive, and every step that sends on a notify channel finds its
\* receiving end alive, so that notify.send(..).unwrap() does not panic; an
\* acknowledgement that comes after get_updates returned finds no waiter of
\* that round.
C27_NotifyReceiverAlive ==
    /\ [](\A i \in 1..Len(waiting) : ReceiverAlive(waiting[i].notify))
    /\ [][\A ch \in DOMAIN notify :
             Len(notify'[ch]) > Len(notify[ch]) => ReceiverAlive(ch)]_vars

\* C27 happens: a round was published after a resend, and a second
\* acknowledgement of its request is at the head of the event channel with
\* the round's receiver gone
C27_Witness ==
    /\ caller_pc = "pub_recv"
    /\ published # <<>>
    /\ waiting = <<>>
    /\ \E w \in 1..Len(hist) : hist[w].acked /\ hist[w].resent > 0
    /\ rx # <<>>
    /\ Head(rx).type = "Code"
    /\ Head(rx).code.letter = LetterO
    /\ Head(rx).code.params # <<>>
    /\ Head(rx).code.params[1].letter = LetterS

(***************************************************************************)
(* Properties of the budget counter of the link loop.                      *)
(***************************************************************************)
\* the bytes written since the last reset of the budget
WrittenSinceReset ==
    SumLen(SelectSeq(writes, LAMBDA w : w.at >= last_send))

\* C28: bytes_sent stays within 0..60 and is the number of bytes written
\* since the last reset, so no more than 60 bytes are written between two
\* resets; every write is of 1 to 60 bytes; and the budget is reset (last_send
\* set to now, the counter restarted) only in the pacing code, with bytes
\* pending and more than 150 ms after the previous reset.
C28_BudgetCounter ==
    /\ [](/\ bytes_sent >= 0 /\ bytes_sent <= BudgetBytes
          /\ bytes_sent = WrittenSinceReset
          /\ \A j \in 1..Len(writes) :
                writes[j].len >= 1 /\ writes[j].len <= BudgetBytes)
    /\ [][last_send' # last_send =>
            /\ link_pc = "pace"
            /\ to_send # <<>>
            /\ clock - last_send > WindowMs
            /\ last_send' = clock
            /\ bytes_sent' = Len(port') - Len(port)]_vars

\* C28 happens: the budget of a window was used up, it was reset later, and
\* the new window's budget is used up too with bytes still pending
C28_Witness ==
    /\ last_send > 0
    /\ bytes_sent = BudgetBytes
    /\ to_send # <<>>
    /\ \E j \in 1..Len(writes) : writes[j].at < last_send

(***************************************************************************)
(* The publisher loop as in SpecPub, with threads that run whenever they   *)
(* can: the main thread, the scheduler thread and the link go on, and time *)
(* passes while the scheduler is blocked.  The station is free to answer   *)
(* or not, the broker to send a request or not.  The catalogue holds       *)
(* sensor 3 or nothing.                                                    *)
(***************************************************************************)
InitPubFair ==
    /\ clock = 0
    /\ caller_pc = "pub_recv"
    /\ InitCmd /\ InitCaller /\ InitSched /\ InitRouter /\ InitLink /\ InitHist
    /\ sensors_lock = "free"
    /\ put_ret = FALSE
    /\ \E ids \in SUBSET {3} :
          /\ sensors = Catalogue(ids)
          /\ map = NameIndex(ids)

\* the steps of the main thread in the publisher loop
PublisherSteps ==
    \/ PublisherRecv \/ GetUpdatesLock \/ GetUpdatesCall \/ GuaranteeSend
    \/ GuaranteePush \/ GetUpdatesUnlock \/ GetUpdatesRecv \/ Snapshot
    \/ Publish

\* the steps of the scheduler thread
SchedulerSteps ==
    \/ SchedCmdDue \/ SchedTimeout \/ SchedRecvTimeout
    \/ SchedMature \/ SchedCode \/ SchedOther \/ SchedRapid

NextPubFair ==
    \/ PublisherRecv \/ GetUpdatesLock \/ GetUpdatesCall \/ GuaranteeSend
    \/ GuaranteePush \/ GetUpdatesUnlock \/ GetUpdatesRecv \/ Snapshot
    \/ Publish
    \/ SchedCmdDue \/ SchedTimeout \/ SchedRecvTimeout
    \/ SchedMature \/ SchedCode \/ SchedOther \/ SchedRapid
    \/ Produce \/ Transmit \/ AdvanceBlocked

SpecPubFair ==
    /\ InitPubFair /\ [][NextPubFair]_vars
    /\ WF_vars(PublisherSteps)
    /\ WF_vars(SchedulerSteps)
    /\ WF_vars(Transmit)
    /\ WF_vars(AdvanceBlocked)

\* the most update requests looked at
MaxLine == 3

\* every guaranteed command registered is acknowledged in the end
AllAcknowledged ==
    \A w \in 1..MaxReg : [](Len(hist) >= w => <>(Len(hist) >= w /\ hist[w].acked))

\* C29: if every guaranteed command is acknowledged in the end, the n-th
\* update request emitted is published in the end, for every n; and an
\* update is published only in a state where no request of its round is
\* waiting for its acknowledgement, so that a request never acknowledged
\* keeps the publisher in get_updates and nothing more is published.
C29_PublisherLiveness ==
    /\ AllAcknowledged
          => \A n \in 1..MaxLine :
                (Len(PublicationLine) >= n) ~> (Len(published) >= n)
    /\ [](caller_pc = "publish" => waiting = <<>>)
    /\ [][published' # published => waiting = <<>>]_vars

\* C29 happens: two requests were emitted and both published, the request
\* of a round having been resent before its acknowledgement came
C29_Witness ==
    /\ Len(published) = 2
    /\ update = <<>>
    /\ \E w \in 1..Len(hist) : hist[w].acked /\ hist[w].resent > 0

====
